---- MODULE Spec2Model ----
(***************************************************************************)
(* Model of the beer catalog store (BeerStore) and of the request pipeline *)
(* it drives through BeerApiService.searchBeers.                           *)
(*                                                                         *)
(* The store keeps its state in signals; loadBeers() pushes the query      *)
(* parameters into loadTrigger$, whose pipeline is                         *)
(*     tap(loading, error) -> switchMap(searchBeers -> tap(beers) ->       *)
(*     catchError) -> tap(loading)                                         *)
(* Every call of searchBeers is kept in the log `requests`; the entry      *)
(* tells whether switchMap is still subscribed to it, how many HTTP        *)
(* attempts the retry operator of the service has made for it and how it   *)
(* settled.                                                                *)
(***************************************************************************)
EXTENDS Integers, Sequences, FiniteSets, TLC

\* ------------------------------------------------------------------------
\* Bounds of the model
\* ------------------------------------------------------------------------

\* number of searchBeers calls kept in the log
MaxRequests == 2

\* largest page number the URL parameter is drawn from
MaxPage == 2

\* longest source collection the display pipeline is run on
MaxLen == 3

\* the clock stops after this many seconds
MaxTime == 6

\* number of messages shown to the user
MaxShows == 2

\* number of show() calls that are not yet answered by a hide()
MaxActive == 3

\* ------------------------------------------------------------------------
\* Program constants
\* ------------------------------------------------------------------------

\* per_page of every query built by loadBeers
PerPage == 25

\* BeerApiService.maxRetries
maxRetries == 3

\* Initial delay for exponential backoff (ms)
retryDelay == 1000

\* ------------------------------------------------------------------------
\* Values
\* ------------------------------------------------------------------------

\* null / undefined of an optional value, and a present value
None == <<>>
Some(x) == <<x>>

\* Catalog items: id, display name (a sequence of characters), abv in tenths
Buzz == [id |-> 1, name |-> <<"B", "u", "z", "z">>, abv |-> Some(45)]
TrashyBlonde == [id |-> 2, name |-> <<"T", "r", "a", "s", "h", "y">>, abv |-> Some(41)]
PunkIPA == [id |-> 3, name |-> <<"P", "u", "n", "k">>, abv |-> Some(56)]
NoAbv == [id |-> 4, name |-> <<"p", "i", "l", "s">>, abv |-> None]

\* two more items whose sort keys equal keys of the items above: the name
\* of PunkAle is "Punk" in lower case and its abv is that of Buzz; Pilsner
\* has the name of NoAbv in another case and no abv either
PunkAle == [id |-> 5, name |-> <<"p", "u", "n", "k">>, abv |-> Some(45)]
Pilsner == [id |-> 6, name |-> <<"P", "i", "l", "s">>, abv |-> None]

\* Bodies a successful response of the catalog API can carry
Responses ==
    { <<Buzz, TrashyBlonde, PunkIPA>>,
      <<PunkIPA, NoAbv, Buzz>> }

\* Search terms the search box can deliver
SearchTerms == { <<>>, <<"u">> }

\* ABV ranges the slider can deliver (tenths of a percent)
AbvRanges ==
    { [min |-> None, max |-> None],
      [min |-> Some(0), max |-> Some(50)] }

\* Sort configurations the dropdown can deliver
SortConfigs ==
    { [by |-> "recommended", direction |-> "asc"],
      [by |-> "abv", direction |-> "desc"] }

FilterModes == {"all", "favorites"}

\* A JavaScript number as setInitialPage can receive it: NaN, or a value
\* counted in halves (3 is 1.5, 4 is 2)
Num(h) == [nan |-> FALSE, halves |-> h]
NaN == [nan |-> TRUE, halves |-> 0]

\* page values setInitialPage is called with
PageInputs == {NaN} \cup {Num(h) : h \in -2 .. 2 * MaxPage}

\* page > 0 and Number.isInteger(page) on such a number
GreaterThanZero(x) == ~x.nan /\ x.halves > 0
IsInteger(x) == ~x.nan /\ x.halves % 2 = 0

\* ------------------------------------------------------------------------
\* State
\* ------------------------------------------------------------------------

VARIABLES
    beers,          \* signal beers: items of the last applied response
    loading,        \* signal loading
    error,          \* signal error: None or Some(message)
    currentPage,    \* signal currentPage
    filterMode,     \* signal filterMode
    searchTerm,     \* signal searchTerm
    abvRange,       \* signal abvRange
    sortConfig,     \* signal sortConfig
    pipeline,       \* the subscription of loadTrigger$: "open" or "closed"
    requests,       \* log of the searchBeers calls made by the pipeline
    lastParams,     \* the parameters of the latest searchBeers call
    favorites,      \* signal favorites of FavoritesService
    storage,        \* sessionStorage item 'beer-favorites': None or Some(text)
    constructed,    \* the constructor of FavoritesService has run
    rateLimitInfo,  \* BeerApiService.rateLimitInfo: None or Some(record)
    activeRequests, \* LoadingService: signal activeRequests
    globalLoading,  \* LoadingService: signal loading
    currentError,   \* ErrorMessageService: signal currentError
    errorHistory,   \* ErrorMessageService: signal errorHistory
    timeoutId,      \* ErrorMessageService.timeoutId: None or Some(id)
    timers,         \* the pending setTimeout timers: records [id, due]
    now             \* the clock the timers run on, in ms

vars == <<beers, loading, error, currentPage, filterMode, searchTerm,
          abvRange, sortConfig, pipeline, requests, lastParams, favorites,
          storage, constructed, rateLimitInfo, activeRequests,
          globalLoading, currentError, errorHistory, timeoutId, timers, now>>

\* what LoadingService owns
loadingVars == <<activeRequests, globalLoading>>

\* what ErrorMessageService owns, and the timers of the browser
errorVars == <<currentError, errorHistory, timeoutId, timers, now>>

\* the services behind the HTTP client
servicesVars == <<rateLimitInfo, loadingVars, errorVars>>

\* the services before any HTTP call
ServicesInit ==
    /\ rateLimitInfo = None
    /\ activeRequests = 0
    /\ globalLoading = FALSE
    /\ currentError = None
    /\ errorHistory = <<>>
    /\ timeoutId = None
    /\ timers = {}
    /\ now = 0

\* the filter, sort and pagination signals
filterVars == <<currentPage, filterMode, searchTerm, abvRange, sortConfig>>

\* what FavoritesService owns
favoritesVars == <<favorites, storage, constructed>>

\* what the request pipeline owns
pipelineVars == <<beers, loading, error, pipeline, requests, lastParams>>

Init ==
    /\ beers = <<>>
    /\ loading = FALSE
    /\ error = None
    /\ currentPage = 1
    /\ filterMode = "all"
    /\ searchTerm = <<>>
    /\ abvRange = [min |-> None, max |-> None]
    /\ sortConfig = [by |-> "recommended", direction |-> "asc"]
    /\ pipeline = "open"
    /\ requests = <<>>
    /\ lastParams = None
    /\ favorites = <<>>
    /\ storage = None
    /\ constructed = TRUE
    /\ ServicesInit


\* ------------------------------------------------------------------------
\* BeerApiService: retry policy and error transformation
\* ------------------------------------------------------------------------

\* Failures of one HTTP attempt: the status, whether error.error is an
\* ErrorEvent, and the message of the error body ("" when it has none)
Failures ==
    { [status |-> 0, errorEvent |-> TRUE, bodyMessage |-> ""],
      [status |-> 0, errorEvent |-> FALSE, bodyMessage |-> ""],
      [status |-> 429, errorEvent |-> FALSE, bodyMessage |-> ""],
      [status |-> 404, errorEvent |-> FALSE, bodyMessage |-> "Beer not found"],
      [status |-> 500, errorEvent |-> FALSE, bodyMessage |-> ""] }

\* (variant) the delay function that backs off on a rate limit
IsClientError_Not429(f) == f.status >= 400 /\ f.status < 500 /\ f.status # 429

\* the delay function of retry(): a client error is thrown again, not retried
IsClientError(f) == f.status >= 400 /\ f.status < 500

\* (variant) a backoff that grows by retryDelay with every retry
DelayMs_Linear(retryCount) == retryDelay * retryCount

\* the timer of the delay function: retryDelay * Math.pow(2, retryCount - 1)
DelayMs(retryCount) == retryDelay * 2 ^ (retryCount - 1)

\* retry({count: maxRetries, delay}): the failure of attempt number `attempt`
\* is surfaced when the retries are used up or the delay function throws
RetryGivesUp(f, attempt) == attempt > maxRetries \/ IsClientError(f)

\* handleError: the ApiError a surfaced failure is turned into
HandleError(f) ==
    IF f.errorEvent
    THEN [message |-> "Network error", statusCode |-> 0]
    ELSE IF f.status = 429
    THEN [message |-> "Too many requests. Please wait a moment and try again.",
          statusCode |-> 429]
    ELSE IF f.status = 0
    THEN [message |-> "Unable to connect to the server. Please check your internet connection.",
          statusCode |-> 0]
    ELSE [message |-> IF f.bodyMessage # "" THEN f.bodyMessage ELSE "Server error",
          statusCode |-> f.status]

\* ------------------------------------------------------------------------
\* BeerStore: the stages of the loadTrigger$ pipeline
\* ------------------------------------------------------------------------

\* the three signals the pipeline writes, as one record
Triple == [beers |-> beers, loading |-> loading, error |-> error]

\* (variant) the tap that forgets to clear the previous error
TapStart_KeepsError(t) == [t EXCEPT !.loading = TRUE]

\* tap before switchMap: a request starts
TapStart(t) == [t EXCEPT !.loading = TRUE, !.error = None]

\* (variant) the response stored in reverse order
TapBeers_Reversed(t, body) ==
    [t EXCEPT !.beers = [i \in 1 .. Len(body) |-> body[Len(body) + 1 - i]]]

\* tap inside switchMap: the response body is stored as received
TapBeers(t, body) == [t EXCEPT !.beers = body]

\* (variant) the error handler that blanks the list
CatchError_ClearsBeers(t, err) ==
    [t EXCEPT !.beers = <<>>,
              !.error = Some(IF err.message # "" THEN err.message
                             ELSE "Failed to load beers")]

\* catchError inside switchMap: the message is stored
CatchError(t, err) ==
    [t EXCEPT !.error =
        Some(IF err.message # "" THEN err.message ELSE "Failed to load beers")]

\* what catchError hands on to the outer stream: `return []` is the empty
\* array taken as an observable, which emits no value and completes
CatchErrorEmits == <<>>

\* tap after switchMap: runs once for every value switchMap emits
TapDone(t) == [t EXCEPT !.loading = FALSE]

\* the outer tap applied to the emissions of the inner observable
AfterEmissions(t, emitted) == IF Len(emitted) > 0 THEN TapDone(t) ELSE t

\* (variant) catchError placed after switchMap: the error ends the stream
PipelineAfterError_Closed == "closed"

\* catchError sits inside switchMap, so an inner error never reaches the
\* outer subscription
PipelineAfterError == "open"

\* (variant) an unsubscription that leaves a pending backoff timer running
Unsubscribed_KeepsTimer(req) ==
    IF req.phase = "backoff"
    THEN req
    ELSE [req EXCEPT !.subscribed = FALSE,
                     !.attempt = 0,
                     !.delay = None,
                     !.result = None]

\* (variant) an unsubscription that only marks the call and leaves its
\* backoff timer armed
Unsubscribed_OnlyMarks(req) == [req EXCEPT !.subscribed = FALSE]

\* What unsubscribing does to one inner observable: the retry operator,
\* its counter and the emitted body are released with the subscription, a
\* pending backoff timer is cleared (the call is "cancelled" for good), a
\* running HTTP attempt is aborted but may still answer into the closed
\* subscription. Of a superseded call the log keeps the phase only.
Unsubscribed(req) ==
    IF ~req.subscribed
    THEN req
    ELSE [req EXCEPT !.subscribed = FALSE,
                     !.attempt = 0,
                     !.delay = None,
                     !.result = None,
                     !.phase = IF @ = "backoff" THEN "cancelled" ELSE @]

\* (variant) mergeMap: the running inner observable stays subscribed
SwitchMapUnsubscribe_Merge(log) == log

\* switchMap unsubscribes from the running inner observable before it
\* subscribes to the next one
SwitchMapUnsubscribe(log) == [i \in 1 .. Len(log) |-> Unsubscribed(log[i])]

\* a searchBeers call that has just been subscribed to
NewRequest ==
    [phase |-> "inflight", attempt |-> 1, delay |-> None, subscribed |-> TRUE,
     result |-> None]

\* loadBeers builds the query from the signals
BuildParams(page, term, range) ==
    [page |-> page,
     per_page |-> PerPage,
     beer_name |-> IF term # <<>> THEN Some(term) ELSE None,
     abv_gt |-> IF range.min # None THEN Some(range.min[1]) ELSE None,
     abv_lt |-> IF range.max # None THEN Some(range.max[1]) ELSE None]

SetTriple(t) ==
    /\ beers' = t.beers
    /\ loading' = t.loading
    /\ error' = t.error

\* loadTrigger$.next(params): the pipeline reacts while it is subscribed
Trigger(params) ==
    IF pipeline = "open"
    THEN /\ Len(requests) < MaxRequests
         /\ SetTriple(TapStart(Triple))
         /\ requests' = Append(SwitchMapUnsubscribe(requests), NewRequest)
         /\ lastParams' = Some(params)
         /\ UNCHANGED pipeline
    ELSE UNCHANGED pipelineVars

\* (variant) loadBeers without the favorites-mode early return
LoadBeersFrom_NoModeCheck(mode, page, term, range) ==
    Trigger(BuildParams(page, term, range))

\* the body of loadBeers, run on the values the signals hold when it is called
LoadBeersFrom(mode, page, term, range) ==
    IF mode = "favorites"
    THEN UNCHANGED pipelineVars
    ELSE Trigger(BuildParams(page, term, range))

\* ------------------------------------------------------------------------
\* Operations of the store
\* ------------------------------------------------------------------------

LoadBeers ==
    /\ LoadBeersFrom(filterMode, currentPage, searchTerm, abvRange)
    /\ UNCHANGED filterVars
    /\ UNCHANGED <<favoritesVars, servicesVars>>

\* (variant) setInitialPage that only tests page > 0 and truncates
SetInitialPage_NoIntegerCheck(page) ==
    /\ currentPage' = IF GreaterThanZero(page) THEN page.halves \div 2 ELSE 1
    /\ UNCHANGED <<filterMode, searchTerm, abvRange, sortConfig>>
    /\ UNCHANGED pipelineVars
    /\ UNCHANGED <<favoritesVars, servicesVars>>

SetInitialPage(page) ==
    /\ currentPage' = IF GreaterThanZero(page) /\ IsInteger(page)
                       THEN page.halves \div 2
                       ELSE 1
    /\ UNCHANGED <<filterMode, searchTerm, abvRange, sortConfig>>
    /\ UNCHANGED pipelineVars
    /\ UNCHANGED <<favoritesVars, servicesVars>>

\* (variant) setSearchTerm that keeps the current page
SetSearchTerm_KeepsPage(term) ==
    /\ searchTerm' = term
    /\ IF filterMode = "all"
       THEN LoadBeersFrom(filterMode, currentPage, term, abvRange)
       ELSE UNCHANGED pipelineVars
    /\ UNCHANGED <<currentPage, filterMode, abvRange, sortConfig>>
    /\ UNCHANGED <<favoritesVars, servicesVars>>

SetSearchTerm(term) ==
    /\ searchTerm' = term
    /\ IF filterMode = "all"
       THEN /\ currentPage' = 1
            /\ LoadBeersFrom(filterMode, 1, term, abvRange)
       ELSE /\ UNCHANGED currentPage
            /\ UNCHANGED pipelineVars
    /\ UNCHANGED <<filterMode, abvRange, sortConfig>>
    /\ UNCHANGED <<favoritesVars, servicesVars>>

SetAbvRange(range) ==
    /\ abvRange' = range
    /\ IF filterMode = "all"
       THEN /\ currentPage' = 1
            /\ LoadBeersFrom(filterMode, 1, searchTerm, range)
       ELSE /\ UNCHANGED currentPage
            /\ UNCHANGED pipelineVars
    /\ UNCHANGED <<filterMode, searchTerm, sortConfig>>
    /\ UNCHANGED <<favoritesVars, servicesVars>>

\* (variant) setSortConfig that reloads like the other filters
SetSortConfig_Reloads(config) ==
    /\ sortConfig' = config
    /\ LoadBeersFrom(filterMode, currentPage, searchTerm, abvRange)
    /\ UNCHANGED <<currentPage, filterMode, searchTerm, abvRange>>
    /\ UNCHANGED <<favoritesVars, servicesVars>>

SetSortConfig(config) ==
    /\ sortConfig' = config
    /\ UNCHANGED <<currentPage, filterMode, searchTerm, abvRange>>
    /\ UNCHANGED pipelineVars
    /\ UNCHANGED <<favoritesVars, servicesVars>>

\* (variant) setFilterMode that reloads before it stores the mode
SetFilterMode_LoadsFirst(mode) ==
    /\ filterMode' = mode
    /\ IF mode = "all"
       THEN LoadBeersFrom(filterMode, currentPage, searchTerm, abvRange)
       ELSE UNCHANGED pipelineVars
    /\ UNCHANGED <<currentPage, searchTerm, abvRange, sortConfig>>
    /\ UNCHANGED <<favoritesVars, servicesVars>>

\* (variant) a switch to favorites that also takes the error message away
SetFilterMode_ClearsError(mode) ==
    /\ filterMode' = mode
    /\ IF mode = "all"
       THEN LoadBeersFrom(mode, currentPage, searchTerm, abvRange)
       ELSE /\ error' = None
            /\ UNCHANGED <<beers, loading, pipeline, requests, lastParams>>
    /\ UNCHANGED <<currentPage, searchTerm, abvRange, sortConfig>>
    /\ UNCHANGED <<favoritesVars, servicesVars>>

SetFilterMode(mode) ==
    /\ filterMode' = mode
    /\ IF mode = "all"
       THEN LoadBeersFrom(mode, currentPage, searchTerm, abvRange)
       ELSE UNCHANGED pipelineVars
    /\ UNCHANGED <<currentPage, searchTerm, abvRange, sortConfig>>
    /\ UNCHANGED <<favoritesVars, servicesVars>>

\* (variant) resetFilters that keeps the mode and reloads only in 'all'
ResetFilters_KeepsMode ==
    /\ searchTerm' = <<>>
    /\ abvRange' = [min |-> None, max |-> None]
    /\ sortConfig' = [by |-> "recommended", direction |-> "asc"]
    /\ UNCHANGED filterMode
    /\ currentPage' = 1
    /\ LoadBeersFrom(filterMode, 1, <<>>, [min |-> None, max |-> None])
    /\ UNCHANGED <<favoritesVars, servicesVars>>

ResetFilters ==
    /\ searchTerm' = <<>>
    /\ abvRange' = [min |-> None, max |-> None]
    /\ sortConfig' = [by |-> "recommended", direction |-> "asc"]
    /\ filterMode' = "all"
    /\ currentPage' = 1
    /\ LoadBeersFrom("all", 1, <<>>, [min |-> None, max |-> None])
    /\ UNCHANGED <<favoritesVars, servicesVars>>

\* (variant) loadNextPage without the favorites-mode early return
LoadNextPage_NoModeCheck ==
    /\ currentPage < MaxPage
    /\ currentPage' = currentPage + 1
    /\ LoadBeersFrom(filterMode, currentPage + 1, searchTerm, abvRange)
    /\ UNCHANGED <<filterMode, searchTerm, abvRange, sortConfig>>
    /\ UNCHANGED <<favoritesVars, servicesVars>>

\* pagination: the next page, not available in favorites mode
LoadNextPage ==
    IF filterMode = "favorites"
    THEN UNCHANGED vars
    ELSE /\ currentPage < MaxPage
         /\ currentPage' = currentPage + 1
         /\ LoadBeersFrom(filterMode, currentPage + 1, searchTerm, abvRange)
         /\ UNCHANGED <<filterMode, searchTerm, abvRange, sortConfig>>
         /\ UNCHANGED <<favoritesVars, servicesVars>>

\* (variant) loadPreviousPage that reloads with the page it started from
LoadPreviousPage_StalePage ==
    IF filterMode = "favorites"
    THEN UNCHANGED vars
    ELSE IF currentPage > 1
    THEN /\ currentPage' = currentPage - 1
         /\ LoadBeersFrom(filterMode, currentPage, searchTerm, abvRange)
         /\ UNCHANGED <<filterMode, searchTerm, abvRange, sortConfig>>
         /\ UNCHANGED <<favoritesVars, servicesVars>>
    ELSE UNCHANGED vars

\* pagination: the previous page, never below page 1
LoadPreviousPage ==
    IF filterMode = "favorites"
    THEN UNCHANGED vars
    ELSE IF currentPage > 1
    THEN /\ currentPage' = currentPage - 1
         /\ LoadBeersFrom(filterMode, currentPage - 1, searchTerm, abvRange)
         /\ UNCHANGED <<filterMode, searchTerm, abvRange, sortConfig>>
         /\ UNCHANGED <<favoritesVars, servicesVars>>
    ELSE UNCHANGED vars

\* ------------------------------------------------------------------------
\* Events of the HTTP calls
\* ------------------------------------------------------------------------

\* the running attempt of request r answers with a body
HttpSuccess(r, body) ==
    /\ requests[r].phase = "inflight"
    /\ IF requests[r].subscribed
       THEN /\ SetTriple(AfterEmissions(TapBeers(Triple, body), <<body>>))
            /\ requests' = [requests EXCEPT ![r].phase = "done",
                                            ![r].result = Some(body)]
       ELSE /\ UNCHANGED <<beers, loading, error>>
            /\ requests' = [requests EXCEPT ![r].phase = "dropped"]
    /\ UNCHANGED <<pipeline, lastParams>>
    /\ UNCHANGED filterVars
    /\ UNCHANGED <<favoritesVars, servicesVars>>

\* (variant) every failed attempt is surfaced, also the ones that are retried
HttpFailure_SurfacesEachAttempt(r, f) ==
    /\ requests[r].phase = "inflight"
    /\ IF ~requests[r].subscribed
       THEN /\ UNCHANGED <<beers, loading, error, pipeline>>
            /\ requests' = [requests EXCEPT ![r].phase = "dropped"]
       ELSE IF RetryGivesUp(f, requests[r].attempt)
       THEN /\ SetTriple(AfterEmissions(CatchError(Triple, HandleError(f)),
                                        CatchErrorEmits))
            /\ pipeline' = PipelineAfterError
            /\ requests' = [requests EXCEPT ![r].phase = "failed"]
       ELSE /\ SetTriple(CatchError(Triple, HandleError(f)))
            /\ UNCHANGED pipeline
            /\ requests' = [requests EXCEPT
                    ![r].phase = "backoff",
                    ![r].delay = Some(DelayMs(requests[r].attempt))]
    /\ UNCHANGED lastParams
    /\ UNCHANGED filterVars
    /\ UNCHANGED <<favoritesVars, servicesVars>>

\* the running attempt of request r fails
HttpFailure(r, f) ==
    /\ requests[r].phase = "inflight"
    /\ IF ~requests[r].subscribed
       THEN /\ UNCHANGED <<beers, loading, error, pipeline>>
            /\ requests' = [requests EXCEPT ![r].phase = "dropped"]
       ELSE IF RetryGivesUp(f, requests[r].attempt)
       THEN /\ SetTriple(AfterEmissions(CatchError(Triple, HandleError(f)),
                                        CatchErrorEmits))
            /\ pipeline' = PipelineAfterError
            /\ requests' = [requests EXCEPT ![r].phase = "failed"]
       ELSE /\ UNCHANGED <<beers, loading, error, pipeline>>
            /\ requests' = [requests EXCEPT
                    ![r].phase = "backoff",
                    ![r].delay = Some(DelayMs(requests[r].attempt))]
    /\ UNCHANGED lastParams
    /\ UNCHANGED filterVars
    /\ UNCHANGED <<favoritesVars, servicesVars>>

\* the backoff timer of request r fires and retry() subscribes again
RetryTimer(r) ==
    /\ requests[r].phase = "backoff"
    /\ requests[r].subscribed
    /\ requests' = [requests EXCEPT ![r].phase = "inflight",
                                    ![r].delay = None,
                                    ![r].attempt = @ + 1]
    /\ UNCHANGED <<beers, loading, error, pipeline, lastParams>>
    /\ UNCHANGED filterVars
    /\ UNCHANGED <<favoritesVars, servicesVars>>

\* ------------------------------------------------------------------------
\* Display pipeline: sourceBeers -> filteredBeers -> sortedBeers
\* ------------------------------------------------------------------------

\* the items a source collection is made of
Catalog == {Buzz, TrashyBlonde, PunkIPA, NoAbv, PunkAle, Pilsner}

\* source collections: up to MaxLen catalog items in any order
Sources ==
    UNION { { src \in [1 .. n -> Catalog] :
                \A i, j \in 1 .. n : src[i] = src[j] => i = j }
            : n \in 0 .. MaxLen }

\* what the search box, the slider and the dropdown can deliver to the
\* display pipeline
DisplaySearchTerms == { <<>>, <<" ">>, <<"U">>, <<" ", "p">> }
DisplayAbvRanges ==
    { [min |-> None, max |-> None],
      [min |-> Some(45), max |-> None],
      [min |-> None, max |-> Some(45)],
      [min |-> Some(0), max |-> Some(56)] }
AllSortConfigs ==
    [by : {"recommended", "name", "abv"}, direction : {"asc", "desc"}]

\* String.prototype.toLowerCase, character by character
Lower(c) ==
    CASE c = "B" -> "b"
      [] c = "P" -> "p"
      [] c = "T" -> "t"
      [] c = "U" -> "u"
      [] OTHER -> c
ToLowerCase(str) == [i \in 1 .. Len(str) |-> Lower(str[i])]

\* String.prototype.trim
IsWhiteSpace(c) == c = " "
Trim(str) ==
    LET kept == {i \in 1 .. Len(str) : ~IsWhiteSpace(str[i])}
    IN  IF kept = {}
        THEN <<>>
        ELSE SubSeq(str,
                    CHOOSE i \in kept : \A j \in kept : i <= j,
                    CHOOSE i \in kept : \A j \in kept : i >= j)

\* String.prototype.includes
Includes(str, search) ==
    \E i \in 0 .. Len(str) - Len(search) :
        SubSeq(str, i + 1, i + Len(search)) = search

\* the UTF-16 code unit of a character, and < on strings
CodeUnit(c) ==
    CASE c = " " -> 32
      [] c = "B" -> 66  [] c = "P" -> 80  [] c = "T" -> 84  [] c = "U" -> 85
      [] c = "a" -> 97  [] c = "b" -> 98  [] c = "h" -> 104 [] c = "i" -> 105
      [] c = "k" -> 107 [] c = "l" -> 108 [] c = "n" -> 110 [] c = "p" -> 112
      [] c = "r" -> 114 [] c = "s" -> 115 [] c = "t" -> 116 [] c = "u" -> 117
      [] c = "y" -> 121 [] c = "z" -> 122
StringLess(a, b) ==
    \E k \in 1 .. Len(b) :
        /\ k <= Len(a) + 1
        /\ \A i \in 1 .. k - 1 : a[i] = b[i]
        /\ k = Len(a) + 1 \/ CodeUnit(a[k]) < CodeUnit(b[k])

\* (variant) the name filter without trim()
NameFilter_NoTrim(list, term) ==
    LET search == ToLowerCase(term)
    IN  IF search # <<>>
        THEN SelectSeq(list, LAMBDA beer :
                                Includes(ToLowerCase(beer.name), search))
        ELSE list

\* filteredBeers, filter by search term (name)
NameFilter(list, term) ==
    LET search == Trim(ToLowerCase(term))
    IN  IF search # <<>>
        THEN SelectSeq(list, LAMBDA beer :
                                Includes(ToLowerCase(beer.name), search))
        ELSE list

\* (variant) the lower ABV bound as a strict bound
MinFilter_Exclusive(list, range) ==
    IF range.min # None
    THEN SelectSeq(list, LAMBDA beer :
                            beer.abv # None /\ beer.abv[1] > range.min[1])
    ELSE list

\* filteredBeers, filter by ABV range: the lower and the upper bound
MinFilter(list, range) ==
    IF range.min # None
    THEN SelectSeq(list, LAMBDA beer :
                            beer.abv # None /\ beer.abv[1] >= range.min[1])
    ELSE list
MaxFilter(list, range) ==
    IF range.max # None
    THEN SelectSeq(list, LAMBDA beer :
                            beer.abv # None /\ beer.abv[1] <= range.max[1])
    ELSE list

\* (variant) the ABV filter run on the source instead of on the result of
\* the name filter
FilteredBeersOf_AbvReplacesName(source, term, range) ==
    IF range.min # None \/ range.max # None
    THEN MaxFilter(MinFilter(source, range), range)
    ELSE NameFilter(source, term)

\* the body of filteredBeers
FilteredBeersOf(source, term, range) ==
    MaxFilter(MinFilter(NameFilter(source, term), range), range)

\* (variant) names compared as they are written
SortValue_CaseSensitive(beer, by) ==
    IF by = "abv" THEN beer.abv ELSE Some(beer.name)

\* the values the comparator compares: None for null / undefined
SortValue(beer, by) ==
    IF by = "abv" THEN beer.abv ELSE Some(ToLowerCase(beer.name))
ValueLess(by, x, y) == IF by = "abv" THEN x < y ELSE StringLess(x, y)

\* (variant) a comparator whose null handling follows the direction
Compare_NullsFollowDirection(a, b, by, direction) ==
    LET valueA == SortValue(a, by)
        valueB == SortValue(b, by)
        comparison ==
            IF valueA = None /\ valueB = None THEN 0
            ELSE IF valueA = None THEN 1
            ELSE IF valueB = None THEN -1
            ELSE IF ValueLess(by, valueA[1], valueB[1]) THEN -1
            ELSE IF ValueLess(by, valueB[1], valueA[1]) THEN 1
            ELSE 0
    IN  IF direction = "asc" THEN comparison ELSE 0 - comparison

\* the comparator handed to Array.prototype.sort
Compare(a, b, by, direction) ==
    LET valueA == SortValue(a, by)
        valueB == SortValue(b, by)
        comparison ==
            IF ValueLess(by, valueA[1], valueB[1]) THEN -1
            ELSE IF ValueLess(by, valueB[1], valueA[1]) THEN 1
            ELSE 0
    IN  IF valueA = None /\ valueB = None THEN 0
        ELSE IF valueA = None THEN 1
        ELSE IF valueB = None THEN -1
        ELSE IF direction = "asc" THEN comparison ELSE 0 - comparison

\* (variant) an insertion that puts an element in front of its equals
RECURSIVE InsertSorted_BeforeEquals(_, _, _, _)
InsertSorted_BeforeEquals(x, sorted, by, direction) ==
    IF sorted = <<>>
    THEN <<x>>
    ELSE IF Compare(x, Head(sorted), by, direction) <= 0
    THEN <<x>> \o sorted
    ELSE <<Head(sorted)>>
            \o InsertSorted_BeforeEquals(x, Tail(sorted), by, direction)

\* Array.prototype.sort is stable: an element goes behind every element
\* that does not compare greater than it
RECURSIVE InsertSorted(_, _, _, _)
InsertSorted(x, sorted, by, direction) ==
    IF sorted = <<>>
    THEN <<x>>
    ELSE IF Compare(x, Head(sorted), by, direction) < 0
    THEN <<x>> \o sorted
    ELSE <<Head(sorted)>> \o InsertSorted(x, Tail(sorted), by, direction)

RECURSIVE ArraySort(_, _, _)
ArraySort(list, by, direction) ==
    IF list = <<>>
    THEN <<>>
    ELSE InsertSorted(list[Len(list)],
                      ArraySort(SubSeq(list, 1, Len(list) - 1), by, direction),
                      by, direction)

\* (variant) 'recommended' that honours the direction
SortedBeersOf_DescReverses(filtered, config) ==
    IF config.by = "recommended"
    THEN IF config.direction = "asc"
         THEN filtered
         ELSE [i \in 1 .. Len(filtered) |-> filtered[Len(filtered) + 1 - i]]
    ELSE ArraySort(filtered, config.by, config.direction)

\* the body of sortedBeers
SortedBeersOf(filtered, config) ==
    IF config.by = "recommended"
    THEN filtered
    ELSE ArraySort(filtered, config.by, config.direction)

\* the computed signals of the store
sourceBeers == IF filterMode = "all" THEN beers ELSE favorites
filteredBeers == FilteredBeersOf(sourceBeers, searchTerm, abvRange)
sortedBeers == SortedBeersOf(filteredBeers, sortConfig)
displayedBeers == sortedBeers

\* True if there are no beers to display
isEmpty == Len(displayedBeers) = 0

\* the flags of emptyMessage
hasSearch == Len(Trim(searchTerm)) > 0
hasAbvFilter == abvRange.min # None \/ abvRange.max # None
hasAnyFilter == hasSearch \/ hasAbvFilter

\* (variant) the failure message takes precedence in both modes
emptyMessage_ErrorFirst ==
    IF error # None
    THEN "Failed to load beers. Please try again."
    ELSE IF filterMode = "favorites"
    THEN IF Len(favorites) = 0
         THEN "No favorites yet. Start adding beers to your favorites!"
         ELSE IF hasAnyFilter
         THEN "No favorites match your filters. Try adjusting your search or ABV range."
         ELSE "No favorites to display."
    ELSE IF hasAnyFilter
         THEN "No beers match your filters. Try adjusting your search or ABV range."
         ELSE "No beers available."

\* (variant) in 'all' mode the filters are looked at before the error
emptyMessage_FilterFirst ==
    IF filterMode = "favorites"
    THEN IF Len(favorites) = 0
         THEN "No favorites yet. Start adding beers to your favorites!"
         ELSE IF hasAnyFilter
         THEN "No favorites match your filters. Try adjusting your search or ABV range."
         ELSE "No favorites to display."
    ELSE IF hasAnyFilter
         THEN "No beers match your filters. Try adjusting your search or ABV range."
         ELSE IF error # None
         THEN "Failed to load beers. Please try again."
         ELSE "No beers available."

\* Empty state message (context-aware)
emptyMessage ==
    IF filterMode = "favorites"
    THEN IF Len(favorites) = 0
         THEN "No favorites yet. Start adding beers to your favorites!"
         ELSE IF hasAnyFilter
         THEN "No favorites match your filters. Try adjusting your search or ABV range."
         ELSE "No favorites to display."
    ELSE IF error # None
         THEN "Failed to load beers. Please try again."
         ELSE IF hasAnyFilter
         THEN "No beers match your filters. Try adjusting your search or ABV range."
         ELSE "No beers available."

\* what the empty-state message is looked at with: the favorites restored
\* at construction and the bodies of the responses, and the search terms
MessageSources == { <<>>, <<NoAbv>>, <<Buzz, NoAbv>> }
MessageTerms == { <<>>, <<" ">>, <<"u">> }

\* ------------------------------------------------------------------------
\* FavoritesService: the favorites signal and its copy in sessionStorage
\* ------------------------------------------------------------------------

\* A text in sessionStorage, by what JSON.parse makes of it: the empty
\* string, a text that is no JSON, or JSON text with the type of its value
\* and, for an array, its elements. An element carries typeof id and
\* typeof name ("missing" where the element has no such property).
Text(text, type, items) == [text |-> text, type |-> type, items |-> items]
EmptyText == Text("empty", "none", <<>>)
NoJson == Text("garbage", "none", <<>>)
JsonNull == Text("json", "null", <<>>)
JsonObject == Text("json", "object", <<>>)
JsonArray(items) == Text("json", "array", items)

\* JSON.stringify of a Beer, and the object JSON.parse gives back
JsonItem(beer) ==
    [idType |-> "number", id |-> beer.id,
     nameType |-> "string", name |-> beer.name, abv |-> beer.abv]
ParsedItem(item) == [id |-> item.id, name |-> item.name, abv |-> item.abv]

\* JSON.stringify(this.favorites())
Stringify(list) == JsonArray([i \in 1 .. Len(list) |-> JsonItem(list[i])])

\* elements that are no Beer: the id is a string, the name is missing
StringId == [JsonItem(Buzz) EXCEPT !.idType = "string"]
NoName == [JsonItem(TrashyBlonde) EXCEPT !.nameType = "missing", !.name = <<>>]

\* an item with the id of Buzz and another name
BuzzLight == [id |-> 1, name |-> <<"B", "u", "z">>, abv |-> Some(41)]

\* what sessionStorage can hold when the service is constructed
Blobs ==
    { None,
      Some(EmptyText),
      Some(NoJson),
      Some(JsonNull),
      Some(JsonObject),
      Some(JsonArray(<<StringId>>)),
      Some(JsonArray(<<JsonItem(Buzz), NoName>>)),
      Some(Stringify(<<>>)),
      Some(Stringify(<<Buzz>>)),
      Some(Stringify(<<NoAbv, Buzz>>)),
      Some(Stringify(<<Buzz, TrashyBlonde, Buzz>>)) }

\* the items the user can mark as favorites
FavoriteInputs == {Buzz, BuzzLight, TrashyBlonde, NoAbv}
FavoriteIds == {beer.id : beer \in FavoriteInputs}

\* sessionStorage.setItem stores the text or throws (QuotaExceededError)
SaveOutcomes == {"stored", "QuotaExceededError"}

\* (variant) a validation that looks at the id only
IsValidItem_IdOnly(item) == item.idType = "number"

\* the validation of loadFavorites: item.id is a number, item.name a string
IsValidItem(item) == item.idType = "number" /\ item.nameType = "string"

\* loadFavorites: what the signal and the storage hold when it returns,
\* and whether an exception left it
loadFavorites(stored) ==
    IF stored = None \/ stored[1].text = "empty"
    THEN [favorites |-> <<>>, storage |-> stored, thrown |-> FALSE]
    ELSE IF stored[1].text # "json"
    THEN [favorites |-> <<>>, storage |-> None, thrown |-> FALSE]
    ELSE IF stored[1].type # "array"
    THEN [favorites |-> <<>>, storage |-> None, thrown |-> FALSE]
    ELSE IF ~ \A i \in DOMAIN stored[1].items : IsValidItem(stored[1].items[i])
    THEN [favorites |-> <<>>, storage |-> None, thrown |-> FALSE]
    ELSE [favorites |-> [i \in DOMAIN stored[1].items |->
                            ParsedItem(stored[1].items[i])],
          storage |-> stored, thrown |-> FALSE]

\* saveFavorites, called with the new value of the signal
saveFavorites(list, outcome) ==
    storage' = IF outcome = "stored" THEN Some(Stringify(list)) ELSE storage

\* isFavorite: favoriteIds().includes(beerId)
isFavorite(beerId) == \E i \in DOMAIN favorites : favorites[i].id = beerId

\* (variant) addFavorite without the membership test
addFavorite_NoCheck(beer, outcome) ==
    /\ favorites' = Append(favorites, beer)
    /\ saveFavorites(Append(favorites, beer), outcome)

addFavorite(beer, outcome) ==
    IF isFavorite(beer.id)
    THEN UNCHANGED <<favorites, storage>>
    ELSE /\ favorites' = Append(favorites, beer)
         /\ saveFavorites(Append(favorites, beer), outcome)

\* (variant) removeFavorite that saves before it updates the signal
removeFavorite_SavesFirst(beerId, outcome) ==
    /\ favorites' = SelectSeq(favorites, LAMBDA beer : beer.id # beerId)
    /\ saveFavorites(favorites, outcome)

removeFavorite(beerId, outcome) ==
    /\ favorites' = SelectSeq(favorites, LAMBDA beer : beer.id # beerId)
    /\ saveFavorites(SelectSeq(favorites, LAMBDA beer : beer.id # beerId),
                     outcome)

\* (variant) a toggle that empties the collection to remove an item
toggleFavorite_RemovesAll(beer, outcome) ==
    IF isFavorite(beer.id)
    THEN /\ favorites' = <<>>
         /\ saveFavorites(<<>>, outcome)
    ELSE addFavorite(beer, outcome)

toggleFavorite(beer, outcome) ==
    IF isFavorite(beer.id)
    THEN removeFavorite(beer.id, outcome)
    ELSE addFavorite(beer, outcome)

clearAllFavorites(outcome) ==
    /\ favorites' = <<>>
    /\ saveFavorites(<<>>, outcome)

\* the constructor of the service
Construct ==
    /\ ~constructed
    /\ constructed' = TRUE
    /\ favorites' = loadFavorites(storage).favorites
    /\ storage' = loadFavorites(storage).storage
    /\ UNCHANGED <<filterVars, pipelineVars, servicesVars>>

\* calls of the service by its users
FavoritesAdd(beer, outcome) ==
    /\ constructed
    /\ addFavorite(beer, outcome)
    /\ UNCHANGED <<constructed, filterVars, pipelineVars, servicesVars>>

FavoritesRemove(beerId, outcome) ==
    /\ constructed
    /\ removeFavorite(beerId, outcome)
    /\ UNCHANGED <<constructed, filterVars, pipelineVars, servicesVars>>

FavoritesToggle(beer, outcome) ==
    /\ constructed
    /\ toggleFavorite(beer, outcome)
    /\ UNCHANGED <<constructed, filterVars, pipelineVars, servicesVars>>

FavoritesClear(outcome) ==
    /\ constructed
    /\ clearAllFavorites(outcome)
    /\ UNCHANGED <<constructed, filterVars, pipelineVars, servicesVars>>

\* BeerStore.toggleFavorite and BeerStore.isFavorite hand over to the service
StoreToggleFavorite(beer, outcome) ==
    /\ constructed
    /\ toggleFavorite(beer, outcome)
    /\ UNCHANGED <<constructed, filterVars, pipelineVars, servicesVars>>
StoreIsFavorite(beerId) == isFavorite(beerId)

\* ------------------------------------------------------------------------
\* LoadingService: the counter of active requests and the loading signal
\* ------------------------------------------------------------------------

\* the two signals of the service as one record
Loading == [activeRequests |-> activeRequests, loading |-> globalLoading]

SetLoading(l) ==
    /\ activeRequests' = l.activeRequests
    /\ globalLoading' = l.loading

\* Math.max
MathMax(a, b) == IF a >= b THEN a ELSE b

\* Increment active request counter and update loading state
show(l) ==
    LET count == l.activeRequests + 1
    IN  [activeRequests |-> count, loading |-> count > 0]

\* (variant) hide without the floor at zero
hide_NoFloor(l) ==
    LET count == l.activeRequests - 1
    IN  [activeRequests |-> count, loading |-> count > 0]

\* Decrement active request counter and update loading state
hide(l) ==
    LET count == MathMax(0, l.activeRequests - 1)
    IN  [activeRequests |-> count, loading |-> count > 0]

\* Reset loading state
reset(l) == [activeRequests |-> 0, loading |-> FALSE]

\* calls of the service by its users
LoadingShow ==
    /\ activeRequests < MaxActive
    /\ SetLoading(show(Loading))
    /\ UNCHANGED <<filterVars, pipelineVars, favoritesVars, rateLimitInfo,
                   errorVars>>

LoadingHide ==
    /\ SetLoading(hide(Loading))
    /\ UNCHANGED <<filterVars, pipelineVars, favoritesVars, rateLimitInfo,
                   errorVars>>

LoadingReset ==
    /\ SetLoading(reset(Loading))
    /\ UNCHANGED <<filterVars, pipelineVars, favoritesVars, rateLimitInfo,
                   errorVars>>

\* ------------------------------------------------------------------------
\* ErrorMessageService: the current message and its auto-dismiss timer
\* ------------------------------------------------------------------------

\* Default auto-dismiss timeout (ms)
defaultTimeout == 5000

\* messages and timeouts the service is called with
ErrorMessages == { "Failed to load data", "Network error" }
Timeouts == { 0, 1000, defaultTimeout }

\* the fields of the service, and the pending timers, as one record
Errors ==
    [currentError |-> currentError, errorHistory |-> errorHistory,
     timeoutId |-> timeoutId, timers |-> timers]

SetErrors(e) ==
    /\ currentError' = e.currentError
    /\ errorHistory' = e.errorHistory
    /\ timeoutId' = e.timeoutId
    /\ timers' = e.timers

\* setTimeout returns an id that no pending timer has
FreshTimerId(pending) ==
    CHOOSE id \in 1 .. Cardinality(pending) + 1 :
        /\ \A t \in pending : t.id # id
        /\ \A smaller \in 1 .. id - 1 : \E t \in pending : t.id = smaller

setTimeout(pending, id, timeout, clock) ==
    pending \cup { [id |-> id, due |-> clock + timeout] }

clearTimeout(pending, id) == { t \in pending : t.id # id }

\* history.slice(-10)
LastTen(history) ==
    IF Len(history) > 10
    THEN SubSeq(history, Len(history) - 9, Len(history))
    ELSE history

\* if (this.timeoutId) { clearTimeout(this.timeoutId); this.timeoutId = null; }
ClearExistingTimeout(e) ==
    IF e.timeoutId # None
    THEN [e EXCEPT !.timers = clearTimeout(@, e.timeoutId[1]),
                   !.timeoutId = None]
    ELSE e

\* (variant) showError that forgets the timer of the message it replaces
showError_KeepsOldTimer(e, message, timeout, clock) ==
    LET shown == [e EXCEPT !.currentError = Some(message),
                           !.errorHistory = LastTen(Append(@, message))]
        id == FreshTimerId(shown.timers)
    IN  IF timeout > 0
        THEN [shown EXCEPT !.timeoutId = Some(id),
                           !.timers = setTimeout(@, id, timeout, clock)]
        ELSE shown

\* Show an error message to the user
showError(e, message, timeout, clock) ==
    LET cleared == ClearExistingTimeout(e)
        shown == [cleared EXCEPT !.currentError = Some(message),
                                 !.errorHistory = LastTen(Append(@, message))]
        id == FreshTimerId(shown.timers)
    IN  IF timeout > 0
        THEN [shown EXCEPT !.timeoutId = Some(id),
                           !.timers = setTimeout(@, id, timeout, clock)]
        ELSE shown

\* Clear the current error message
clearError(e) == [ClearExistingTimeout(e) EXCEPT !.currentError = None]

\* calls of the service by its users
ShowError(message, timeout) ==
    /\ Len(errorHistory) < MaxShows
    /\ SetErrors(showError(Errors, message, timeout, now))
    /\ UNCHANGED <<now, filterVars, pipelineVars, favoritesVars,
                   rateLimitInfo, loadingVars>>

ClearError ==
    /\ SetErrors(clearError(Errors))
    /\ UNCHANGED <<now, filterVars, pipelineVars, favoritesVars,
                   rateLimitInfo, loadingVars>>

\* a pending timer is due: it leaves the timer table and its callback,
\* () => this.clearError(), runs
TimerFires(t) ==
    /\ t \in timers
    /\ t.due = now
    /\ SetErrors(clearError([Errors EXCEPT !.timers = @ \ {t}]))
    /\ UNCHANGED <<now, filterVars, pipelineVars, favoritesVars,
                   rateLimitInfo, loadingVars>>

\* time passes, up to the moment the next timer is due
Advance(ms) ==
    /\ now + ms <= MaxTime * 1000
    /\ \A t \in timers : now + ms <= t.due
    /\ now' = now + ms
    /\ UNCHANGED <<currentError, errorHistory, timeoutId, timers>>
    /\ UNCHANGED <<filterVars, pipelineVars, favoritesVars, rateLimitInfo,
                   loadingVars>>

\* ------------------------------------------------------------------------
\* The HTTP client: interceptors around every attempt of a searchBeers call
\* ------------------------------------------------------------------------

\* header values are strings of digits, "" included
DigitValue(c) ==
    CHOOSE d \in 0 .. 9 :
        <<"0", "1", "2", "3", "4", "5", "6", "7", "8", "9">>[d + 1] = c

\* parseInt(text, 10) of a string of digits
RECURSIVE ParseInt(_)
ParseInt(text) ==
    IF Len(text) = 1
    THEN DigitValue(text[1])
    ELSE 10 * ParseInt(SubSeq(text, 1, Len(text) - 1))
            + DigitValue(text[Len(text)])

\* the rate limit headers of a response: None when the header is missing
Header(limit, remaining) == [limit |-> limit, remaining |-> remaining]

HeaderSets ==
    { Header(None, None),
      Header(Some(<<"3", "6">>), Some(<<"3", "5">>)),
      Header(Some(<<"3", "6">>), Some(<<"0">>)),
      Header(None, Some(<<"7">>)) }

\* what a header value is in a condition: null and "" are falsy
Truthy(value) == value # None /\ value[1] # <<>>

\* handleRateLimitHeaders, next: the info is replaced when both headers
\* are there
handleRateLimitHeaders(info, headers) ==
    IF Truthy(headers.limit) /\ Truthy(headers.remaining)
    THEN Some([limit |-> ParseInt(headers.limit[1]),
               remaining |-> ParseInt(headers.remaining[1])])
    ELSE info

\* Get rate limit information from the last response
getRateLimitInfo == rateLimitInfo

\* errorInterceptor: the user-friendly message of a failed attempt
UserMessage(f) ==
    IF f.status = 0
    THEN "Unable to connect to the server. Please check your internet connection."
    ELSE IF f.status = 429
    THEN "Too many requests. Please wait a moment and try again."
    ELSE IF f.status >= 400 /\ f.status < 500
    THEN IF f.bodyMessage # "" THEN f.bodyMessage
         ELSE "Invalid request. Please try again."
    ELSE IF f.status >= 500
    THEN IF f.bodyMessage # "" THEN f.bodyMessage
         ELSE "Server error. Please try again later."
    ELSE "An unexpected error occurred. Please try again."

\* errorInterceptor, catchError: the message is shown, the error goes on
errorInterceptor(e, f, clock) ==
    showError(e, UserMessage(f), defaultTimeout, clock)

\* (variant) finalize that does not run when the subscriber leaves
finalize_NotOnUnsubscribe(l, how) ==
    IF how = "unsubscribe" THEN l ELSE hide(l)

\* loadingInterceptor, finalize: on complete, on error and on unsubscribe
finalize(l, how) == hide(l)

\* the failures and the bodies the backend answers with
HttpFailures == { f \in Failures : f.status \in {429, 500} }
HttpBodies == { <<Buzz, TrashyBlonde, PunkIPA>> }

\* a caller subscribes to searchBeers(): http.get runs the interceptors
\* and the first attempt starts
GatewayCall ==
    /\ Len(requests) < MaxRequests
    /\ requests' = Append(requests, NewRequest)
    /\ SetLoading(show(Loading))
    /\ UNCHANGED <<beers, loading, error, pipeline, lastParams>>
    /\ UNCHANGED <<filterVars, favoritesVars, rateLimitInfo, errorVars>>

\* the running attempt of call r is answered with a body
AttemptSucceeds(r, body, headers) ==
    /\ requests[r].phase = "inflight"
    /\ requests[r].subscribed
    /\ rateLimitInfo' = handleRateLimitHeaders(rateLimitInfo, headers)
    /\ requests' = [requests EXCEPT ![r].phase = "done",
                                    ![r].result = Some(body)]
    /\ SetLoading(finalize(Loading, "complete"))
    /\ UNCHANGED <<beers, loading, error, pipeline, lastParams>>
    /\ UNCHANGED <<filterVars, favoritesVars, errorVars>>

\* the running attempt of call r fails: the error passes the error
\* interceptor and the loading interceptor, then retry() decides
AttemptFails(r, f, headers) ==
    /\ requests[r].phase = "inflight"
    /\ requests[r].subscribed
    /\ SetErrors(errorInterceptor(Errors, f, now))
    /\ SetLoading(finalize(Loading, "error"))
    /\ requests' =
         IF RetryGivesUp(f, requests[r].attempt)
         THEN [requests EXCEPT ![r].phase = "failed"]
         ELSE [requests EXCEPT
                 ![r].phase = "backoff",
                 ![r].delay = Some(DelayMs(requests[r].attempt))]
    /\ UNCHANGED <<beers, loading, error, pipeline, lastParams>>
    /\ UNCHANGED <<filterVars, favoritesVars, rateLimitInfo, now>>

\* the backoff timer of call r fires: retry() subscribes to http.get again
BackoffElapses(r) ==
    /\ requests[r].phase = "backoff"
    /\ requests[r].subscribed
    /\ requests' = [requests EXCEPT ![r].phase = "inflight",
                                    ![r].delay = None,
                                    ![r].attempt = @ + 1]
    /\ SetLoading(show(Loading))
    /\ UNCHANGED <<beers, loading, error, pipeline, lastParams>>
    /\ UNCHANGED <<filterVars, favoritesVars, rateLimitInfo, errorVars>>

\* the caller unsubscribes from call r: a running attempt is aborted, a
\* backoff timer is cleared
Unsubscribe(r) ==
    /\ requests[r].subscribed
    /\ requests[r].phase \in {"inflight", "backoff"}
    /\ requests' = [requests EXCEPT ![r].phase = "cancelled",
                                    ![r].delay = None,
                                    ![r].subscribed = FALSE]
    /\ IF requests[r].phase = "inflight"
       THEN SetLoading(finalize(Loading, "unsubscribe"))
       ELSE UNCHANGED loadingVars
    /\ UNCHANGED <<beers, loading, error, pipeline, lastParams>>
    /\ UNCHANGED <<filterVars, favoritesVars, rateLimitInfo, errorVars>>

\* ------------------------------------------------------------------------
\* Specification
\* ------------------------------------------------------------------------

Next ==
    \/ LoadBeers
    \/ \E page \in PageInputs : SetInitialPage(page)
    \/ \E term \in SearchTerms : SetSearchTerm(term)
    \/ \E range \in AbvRanges : SetAbvRange(range)
    \/ \E config \in SortConfigs : SetSortConfig(config)
    \/ \E mode \in FilterModes : SetFilterMode(mode)
    \/ ResetFilters
    \/ LoadNextPage
    \/ LoadPreviousPage
    \/ \E r \in 1 .. Len(requests), body \in Responses : HttpSuccess(r, body)
    \/ \E r \in 1 .. Len(requests), f \in Failures : HttpFailure(r, f)
    \/ \E r \in 1 .. Len(requests) : RetryTimer(r)

Spec == Init /\ [][Next]_vars

\* The display pipeline runs on a store that holds a source
\* collection: either the first load was answered with it, or the
\* favorites service restored it from the session storage and the store
\* was switched to favorites mode.
InitDisplay ==
    \E source \in Sources :
        /\ constructed = TRUE
        /\ ServicesInit
        /\ loading = FALSE
        /\ error = None
        /\ currentPage = 1
        /\ searchTerm = <<>>
        /\ abvRange = [min |-> None, max |-> None]
        /\ sortConfig = [by |-> "recommended", direction |-> "asc"]
        /\ pipeline = "open"
        /\ \/ /\ filterMode = "all"
              /\ beers = source
              /\ requests = <<[NewRequest EXCEPT !.phase = "done",
                                                !.result = Some(source)]>>
              /\ lastParams = Some(BuildParams(1, <<>>, abvRange))
              /\ favorites = <<>>
              /\ storage = None
           \/ /\ filterMode = "favorites"
              /\ beers = <<>>
              /\ requests = <<>>
              /\ lastParams = None
              /\ favorites = source
              /\ storage = Some(Stringify(source))

NextDisplay ==
    \/ \E term \in DisplaySearchTerms : SetSearchTerm(term)
    \/ \E range \in DisplayAbvRanges : SetAbvRange(range)
    \/ \E config \in AllSortConfigs : SetSortConfig(config)

SpecDisplay == InitDisplay /\ [][NextDisplay]_vars

\* The favorites service from its construction on, with whatever the
\* session storage held; the store is left as it was constructed.
InitFavorites ==
    /\ beers = <<>>
    /\ loading = FALSE
    /\ error = None
    /\ currentPage = 1
    /\ filterMode = "all"
    /\ searchTerm = <<>>
    /\ abvRange = [min |-> None, max |-> None]
    /\ sortConfig = [by |-> "recommended", direction |-> "asc"]
    /\ pipeline = "open"
    /\ requests = <<>>
    /\ lastParams = None
    /\ favorites = <<>>
    /\ storage \in Blobs
    /\ constructed = FALSE
    /\ ServicesInit

NextFavorites ==
    \/ Construct
    \/ \E beer \in FavoriteInputs, outcome \in SaveOutcomes :
          FavoritesAdd(beer, outcome)
    \/ \E beerId \in FavoriteIds, outcome \in SaveOutcomes :
          FavoritesRemove(beerId, outcome)
    \/ \E beer \in FavoriteInputs, outcome \in SaveOutcomes :
          FavoritesToggle(beer, outcome)
    \/ \E outcome \in SaveOutcomes : FavoritesClear(outcome)
    \/ \E beer \in FavoriteInputs, outcome \in SaveOutcomes :
          StoreToggleFavorite(beer, outcome)

SpecFavorites == InitFavorites /\ [][NextFavorites]_vars

\* The store after its construction, with favorites restored from the
\* session storage, loading, failing, filtering and switching the mode.
InitMessages ==
    \E source \in MessageSources :
        /\ beers = <<>>
        /\ loading = FALSE
        /\ error = None
        /\ currentPage = 1
        /\ filterMode = "all"
        /\ searchTerm = <<>>
        /\ abvRange = [min |-> None, max |-> None]
        /\ sortConfig = [by |-> "recommended", direction |-> "asc"]
        /\ pipeline = "open"
        /\ requests = <<>>
        /\ lastParams = None
        /\ favorites = source
        /\ storage = IF source = <<>> THEN None ELSE Some(Stringify(source))
        /\ constructed = TRUE
        /\ ServicesInit

NextMessages ==
    \/ LoadBeers
    \/ \E term \in MessageTerms : SetSearchTerm(term)
    \/ \E range \in AbvRanges : SetAbvRange(range)
    \/ \E mode \in FilterModes : SetFilterMode(mode)
    \/ \E r \in 1 .. Len(requests), body \in MessageSources : HttpSuccess(r, body)
    \/ \E r \in 1 .. Len(requests), f \in Failures : HttpFailure(r, f)
    \/ \E r \in 1 .. Len(requests) : RetryTimer(r)

SpecMessages == InitMessages /\ [][NextMessages]_vars

\* The store with everything that is called on it while requests run: the
\* mutators of the filters, the mode switch and the favorite button
FrameFavorites == { Buzz }

NextFrame ==
    \/ LoadBeers
    \/ \E term \in SearchTerms : SetSearchTerm(term)
    \/ \E range \in AbvRanges : SetAbvRange(range)
    \/ \E config \in SortConfigs : SetSortConfig(config)
    \/ \E mode \in FilterModes : SetFilterMode(mode)
    \/ \E beer \in FrameFavorites : StoreToggleFavorite(beer, "stored")
    \/ \E r \in 1 .. Len(requests), body \in Responses : HttpSuccess(r, body)
    \/ \E r \in 1 .. Len(requests), f \in Failures : HttpFailure(r, f)
    \/ \E r \in 1 .. Len(requests) : RetryTimer(r)

SpecFrame == Init /\ [][NextFrame]_vars

\* LoadingService and ErrorMessageService called by their users while
\* time passes
NextServices ==
    \/ LoadingShow
    \/ LoadingHide
    \/ LoadingReset
    \/ \E message \in ErrorMessages, timeout \in Timeouts :
            ShowError(message, timeout)
    \/ ClearError
    \/ \E t \in timers : TimerFires(t)
    \/ Advance(1000)

SpecServices == Init /\ [][NextServices]_vars

\* searchBeers called by subscribers of its own, through the HTTP client
\* with its interceptors
NextHttp ==
    \/ GatewayCall
    \/ \E r \in 1 .. Len(requests), body \in HttpBodies, headers \in HeaderSets :
            AttemptSucceeds(r, body, headers)
    \/ \E r \in 1 .. Len(requests), f \in HttpFailures, headers \in HeaderSets :
            AttemptFails(r, f, headers)
    \/ \E r \in 1 .. Len(requests) : BackoffElapses(r)
    \/ \E r \in 1 .. Len(requests) : Unsubscribe(r)
    \/ \E t \in timers : TimerFires(t)
    \/ Advance(defaultTimeout)

SpecHttp == Init /\ [][NextHttp]_vars

\* ------------------------------------------------------------------------
\* Properties of the request pipeline
\* ------------------------------------------------------------------------

\* the latest searchBeers call (0 when none was made)
Latest == Len(requests)

\* request r is still waiting for an answer or for its retry timer
Unsettled(req) == req.phase \in {"inflight", "backoff"}

\* in this step request r goes to phase p
Becomes(r, p) ==
    /\ Len(requests') = Len(requests)
    /\ requests[r].phase # p
    /\ requests'[r].phase = p

\* in this step a new searchBeers call is made
Issues == Len(requests') = Len(requests) + 1

\* C1: last request wins. Once the latest request has succeeded, beers is
\* the body of its response, whatever earlier (superseded) requests were
\* answered with and whenever their answers arrived.
C1_LastRequestWins ==
    \A r \in 1 .. Len(requests) :
        (r = Latest /\ requests[r].phase = "done")
            => beers = requests[r].result[1]

\* R1 was superseded by R2, the transport of both has answered, and beers
\* holds R2's body
C1_Witness ==
    /\ Len(requests) = 2
    /\ requests[1].phase = "dropped"
    /\ requests[2].phase = "done"
    /\ beers = requests[2].result[1]
    /\ beers # <<>>

\* C2: once a newer request has been issued, no event of a superseded
\* request (an answer, a failure, a retry) changes beers, error or loading.
C2_SupersededIsInert ==
    [][\A r \in 1 .. Len(requests) :
          (/\ r < Latest
           /\ Len(requests') = Len(requests)
           /\ requests'[r] # requests[r])
              => UNCHANGED <<beers, loading, error>>]_vars

\* the transport of a superseded request has answered while the newer
\* request is still running: loading is still set and nothing was written
C2_Witness ==
    /\ Len(requests) = 2
    /\ requests[1].phase = "dropped"
    /\ requests[2].phase = "inflight"
    /\ loading
    /\ error = None

\* C3: when the latest request fails for good, error becomes a non-empty
\* message and beers is left as it was; beers changes only in a step in
\* which a request succeeds, so it is what it was before the request.
C3_FailureKeepsItems ==
    [][/\ \A r \in 1 .. Len(requests) :
            Becomes(r, "failed")
                => /\ error' # None
                   /\ error'[1] # ""
                   /\ beers' = beers
       /\ beers' # beers => \E r \in 1 .. Len(requests) : Becomes(r, "done")]_vars

\* a request succeeded, the next one failed after all its retries: the old
\* items are still there next to the message
C3_Witness ==
    /\ Len(requests) = 2
    /\ requests[1].phase = "done"
    /\ requests[2].phase = "failed"
    /\ requests[2].attempt = maxRetries + 1
    /\ filterMode = "all"
    /\ beers # <<>>
    /\ error # None

\* C4: when the latest request has failed for good and no newer request
\* was issued, loading is false.
C4_LoadingFalseAfterFailure ==
    \A r \in 1 .. Len(requests) :
        (r = Latest /\ requests[r].phase = "failed" /\ error # None)
            => loading = FALSE

\* C5: a step that issues a request sets loading, clears error and leaves
\* beers alone; loadBeers in remote mode is such a step; and beers stays
\* as it is while the latest request is unsettled.
C5_RequestStart ==
    [][/\ Issues => /\ loading' = TRUE
                    /\ error' = None
                    /\ beers' = beers
                    /\ requests'[Len(requests')] = NewRequest
       /\ (LoadBeers /\ filterMode = "all") => Issues
       /\ \A r \in 1 .. Len(requests) :
            (/\ r = Latest
             /\ Len(requests') = Len(requests)
             /\ Unsettled(requests[r])
             /\ Unsettled(requests'[r]))
                => beers' = beers]_vars

\* a request was issued after a failure: the message is gone, loading is
\* set and the items of the first response are untouched
C5_Witness ==
    /\ Len(requests) = 2
    /\ requests[1].phase = "failed"
    /\ requests[2].phase = "inflight"
    /\ requests[2].attempt = 1
    /\ loading
    /\ error = None

\* C6: when the latest request succeeds, beers becomes the body as it was
\* received, loading becomes false and error is and stays null.
C6_SuccessApplied ==
    [][\A r \in 1 .. Len(requests) :
          (r = Latest /\ Becomes(r, "done"))
              => /\ beers' = requests'[r].result[1]
                 /\ loading' = FALSE
                 /\ error = None
                 /\ error' = None]_vars

\* the latest request succeeded on a retry with a body that is not in id
\* order
C6_Witness ==
    /\ Len(requests) >= 1
    /\ requests[Latest].phase = "done"
    /\ requests[Latest].attempt > 1
    /\ beers = <<PunkIPA, NoAbv, Buzz>>
    /\ ~loading
    /\ error = None

\* C7: loadBeers in favorites mode changes nothing: no request is issued
\* and no signal is written.
C7_LoadInFavoritesIsNoOp ==
    [][(LoadBeers /\ filterMode = "favorites") => UNCHANGED vars]_vars

\* favorites mode with room for another request, a request still running
\* and filters set: loadBeers is called here and leaves all of it alone
C7_Witness ==
    /\ filterMode = "favorites"
    /\ Len(requests) = 1
    /\ requests[1].phase = "inflight"
    /\ loading
    /\ searchTerm # <<>>
    /\ ENABLED LoadBeers

\* C8: a failed request does not end the pipeline: its subscription stays
\* open, a later loadBeers in remote mode issues a new request, and the
\* answer to that request is applied to beers.
C8_FailureKeepsPipeline ==
    [][/\ (\E r \in 1 .. Len(requests') : requests'[r].phase = "failed")
            => pipeline' = "open"
       /\ (\E r \in 1 .. Len(requests) : requests[r].phase = "failed")
            => /\ (LoadBeers /\ filterMode = "all") => Issues
               /\ \A r \in 1 .. Len(requests) :
                    (r = Latest /\ Becomes(r, "done"))
                        => beers' = requests'[r].result[1]]_vars

\* the first request failed, a second one was issued and its answer is in
\* beers
C8_Witness ==
    /\ Len(requests) = 2
    /\ requests[1].phase = "failed"
    /\ requests[2].phase = "done"
    /\ beers = requests[2].result[1]
    /\ pipeline = "open"

\* ------------------------------------------------------------------------
\* Properties of the mutators
\* ------------------------------------------------------------------------

\* C9: setSearchTerm and setAbvRange store the new value; in remote mode
\* they set the page to 1 and issue one request with page 1 and the new
\* value; in favorites mode they issue none and leave page, beers, loading
\* and error alone.
C9_FilterMutators ==
    [][/\ \A term \in SearchTerms :
            SetSearchTerm(term)
                => /\ searchTerm' = term
                   /\ filterMode = "all"
                        => /\ currentPage' = 1
                           /\ Issues
                           /\ lastParams' = Some(BuildParams(1, term, abvRange))
                   /\ filterMode = "favorites"
                        => /\ Len(requests') = Len(requests)
                           /\ UNCHANGED <<currentPage, beers, loading, error>>
       /\ \A range \in AbvRanges :
            SetAbvRange(range)
                => /\ abvRange' = range
                   /\ filterMode = "all"
                        => /\ currentPage' = 1
                           /\ Issues
                           /\ lastParams' = Some(BuildParams(1, searchTerm, range))
                   /\ filterMode = "favorites"
                        => /\ Len(requests') = Len(requests)
                           /\ UNCHANGED <<currentPage, beers, loading, error>>]_vars

\* remote mode, both filters set, and the latest query carries page 1, the
\* search term and the ABV bounds
C9_Witness ==
    /\ filterMode = "all"
    /\ searchTerm = <<"u">>
    /\ abvRange = [min |-> Some(0), max |-> Some(50)]
    /\ currentPage = 1
    /\ lastParams = Some([page |-> 1, per_page |-> PerPage,
                          beer_name |-> Some(<<"u">>),
                          abv_gt |-> Some(0), abv_lt |-> Some(50)])
    /\ requests[Latest].phase = "inflight"

\* C10: setSortConfig changes sortConfig only: no request, and every other
\* signal keeps its value.
C10_SortIsLocal ==
    [][\A config \in SortConfigs :
          SetSortConfig(config)
              => /\ sortConfig' = config
                 /\ UNCHANGED <<beers, loading, error, currentPage, filterMode,
                                searchTerm, abvRange, requests, lastParams>>]_vars

\* the sort was changed while a request was waiting for its retry
C10_Witness ==
    /\ sortConfig = [by |-> "abv", direction |-> "desc"]
    /\ Len(requests) = 1
    /\ requests[1].phase = "backoff"
    /\ loading

\* ------------------------------------------------------------------------
\* Properties of the mode switch, the reset and the pagination
\* ------------------------------------------------------------------------

\* C11: setFilterMode('favorites') stores the mode and makes no request;
\* setFilterMode('all') stores the mode and makes exactly one request every
\* time it is called, also when the mode was 'all' already.
C11_SetFilterMode ==
    [][\A mode \in FilterModes :
          SetFilterMode(mode)
              => /\ filterMode' = mode
                 /\ mode = "favorites"
                      => /\ Len(requests') = Len(requests)
                         /\ UNCHANGED lastParams
                 /\ mode = "all"
                      => /\ Issues
                         /\ lastParams' = Some(BuildParams(currentPage,
                                                           searchTerm, abvRange))]_vars

\* the only request so far carries a page and a search term that were set
\* without a request (in favorites mode): switching back to 'all' made it
C11_Witness ==
    /\ filterMode = "all"
    /\ Len(requests) = 1
    /\ currentPage = 2
    /\ searchTerm = <<"u">>
    /\ lastParams = Some(BuildParams(2, <<"u">>, abvRange))

C13_NoPaginationInFavorites ==
    [][(filterMode = "favorites" /\ (LoadNextPage \/ LoadPreviousPage))
          => UNCHANGED vars]_vars

\* favorites mode on a page above 1 with a request still waiting: both
\* pagination calls could act here
C13_Witness ==
    /\ filterMode = "favorites"
    /\ currentPage = 2
    /\ Len(requests) = 1
    /\ requests[1].phase = "inflight"
    /\ ENABLED LoadNextPage
    /\ ENABLED LoadPreviousPage

\* C14: the page is an integer of at least 1 in every reachable state;
\* loadPreviousPage on page 1 leaves the page at 1 and makes no request;
\* setInitialPage with a value that is not positive, not an integer or NaN
\* sets the page to 1.
C14_PageFloor ==
    /\ [](currentPage \in Nat /\ currentPage >= 1)
    /\ [][/\ (LoadPreviousPage /\ currentPage = 1)
               => /\ currentPage' = 1
                  /\ Len(requests') = Len(requests)
           /\ \A p \in PageInputs :
                 (SetInitialPage(p)
                    /\ (p.nan \/ p.halves <= 0 \/ p.halves % 2 # 0))
                    => currentPage' = 1]_vars

\* the page is back at 1 although the only request was made for page 2:
\* setInitialPage reset it
C14_Witness ==
    /\ currentPage = 1
    /\ Len(requests) = 1
    /\ lastParams # None
    /\ lastParams[1].page = 2

\* C15: in 'all' mode loadNextPage raises the page by one and
\* loadPreviousPage, on a page above 1, lowers it by one; each makes exactly
\* one request, whose page is the new page and whose per_page is 25.
C15_Pagination ==
    [][/\ (filterMode = "all" /\ LoadNextPage)
           => /\ currentPage' = currentPage + 1
              /\ Issues
              /\ lastParams'[1].page = currentPage'
              /\ lastParams'[1].per_page = PerPage
       /\ (filterMode = "all" /\ currentPage > 1 /\ LoadPreviousPage)
           => /\ currentPage' = currentPage - 1
              /\ Issues
              /\ lastParams'[1].page = currentPage'
              /\ lastParams'[1].per_page = PerPage]_vars

\* two requests: the first for page 1 was superseded, the latest is for
\* page 2, the page the store is on
C15_Witness ==
    /\ filterMode = "all"
    /\ Len(requests) = 2
    /\ ~requests[1].subscribed
    /\ currentPage = 2
    /\ lastParams[1].page = 2
    /\ lastParams[1].per_page = PerPage
    /\ searchTerm = <<"u">>

\* ------------------------------------------------------------------------
\* Properties of the display pipeline
\* ------------------------------------------------------------------------

\* the search text without the blanks around it
Trimmed(str) ==
    IF \A i \in 1 .. Len(str) : str[i] = " "
    THEN <<>>
    ELSE LET first == CHOOSE i \in 1 .. Len(str) :
                          str[i] # " " /\ \A j \in 1 .. i - 1 : str[j] = " "
             last == CHOOSE i \in 1 .. Len(str) :
                          str[i] # " " /\ \A j \in i + 1 .. Len(str) : str[j] = " "
         IN  [i \in 1 .. last - first + 1 |-> str[first + i - 1]]

\* name contains text, upper and lower case taken as equal
ContainsIgnoringCase(name, text) ==
    \E k \in 0 .. Len(name) - Len(text) :
        \A j \in 1 .. Len(text) : Lower(name[k + j]) = Lower(text[j])

\* the item passes the name filter / the ABV filter of the current state
NameOK(beer) ==
    Trimmed(searchTerm) = <<>>
        \/ ContainsIgnoringCase(beer.name, Trimmed(searchTerm))
AbvOK(beer) ==
    /\ abvRange.min # None
         => beer.abv # None /\ beer.abv[1] >= abvRange.min[1]
    /\ abvRange.max # None
         => beer.abv # None /\ beer.abv[1] <= abvRange.max[1]

\* the item is among the displayed ones
Displayed(beer) == \E j \in DOMAIN displayedBeers : displayedBeers[j] = beer

\* C16: the name of every displayed item contains the trimmed search text,
\* case-insensitively; a search text that is empty after trimming filters
\* nothing.
C16_NameFilter ==
    /\ \A i \in DOMAIN displayedBeers :
          ContainsIgnoringCase(displayedBeers[i].name, Trimmed(searchTerm))
    /\ Trimmed(searchTerm) = <<>>
          => NameFilter(sourceBeers, searchTerm) = sourceBeers

\* the search text "U" keeps Buzz and Punk and drops Trashy
C16_Witness ==
    /\ searchTerm = <<"U">>
    /\ sourceBeers = <<Buzz, TrashyBlonde, PunkIPA>>
    /\ displayedBeers = <<Buzz, PunkIPA>>

\* C17: the ABV filter is inclusive at each bound that is set, and an item
\* without ABV is excluded whenever at least one bound is set: an item that
\* passes the name filter is displayed exactly when its ABV is present and
\* within every bound that is set.
C17_AbvFilter ==
    \A i \in DOMAIN sourceBeers :
        LET beer == sourceBeers[i]
            within ==
                \/ abvRange.min = None /\ abvRange.max = None
                \/ /\ beer.abv # None
                   /\ abvRange.min = None \/ beer.abv[1] >= abvRange.min[1]
                   /\ abvRange.max = None \/ beer.abv[1] <= abvRange.max[1]
        IN  NameOK(beer) => (Displayed(beer) <=> within)

\* lower bound 4.5: Buzz (4.5) stays, the item without ABV and Trashy (4.1)
\* are dropped
C17_Witness ==
    /\ abvRange = [min |-> Some(45), max |-> None]
    /\ sourceBeers = <<NoAbv, Buzz, TrashyBlonde>>
    /\ displayedBeers = <<Buzz>>

\* C18: the filter stage keeps exactly the items that pass the name filter
\* and the ABV filter, in the order of the source; without any filter its
\* output is the source.
C18_FilterExact ==
    /\ filteredBeers
         = SelectSeq(sourceBeers, LAMBDA beer : NameOK(beer) /\ AbvOK(beer))
    /\ (Trimmed(searchTerm) = <<>> /\ abvRange = [min |-> None, max |-> None])
         => filteredBeers = sourceBeers

\* both filters set: of Punk, pils (no ABV), Buzz the filter keeps Punk
\* and Buzz, in this order, whatever the sort
C18_Witness ==
    /\ searchTerm = <<"U">>
    /\ abvRange = [min |-> Some(0), max |-> Some(56)]
    /\ sourceBeers = <<PunkIPA, TrashyBlonde, Buzz>>
    /\ filteredBeers = <<PunkIPA, Buzz>>
    /\ sortConfig.by = "abv"

\* C19: with the sort key 'recommended' the displayed list is the filtered
\* list, element for element, for either direction; in 'all' mode without
\* filters it is beers, in the order of the response.
C19_Recommended ==
    sortConfig.by = "recommended"
        => /\ displayedBeers = filteredBeers
           /\ (/\ filterMode = "all"
               /\ Trimmed(searchTerm) = <<>>
               /\ abvRange = [min |-> None, max |-> None])
                 => displayedBeers = beers

\* recommended / desc in 'all' mode shows the response as it came
C19_Witness ==
    /\ sortConfig = [by |-> "recommended", direction |-> "desc"]
    /\ filterMode = "all"
    /\ requests[1].result = Some(<<PunkIPA, NoAbv, Buzz>>)
    /\ displayedBeers = <<PunkIPA, NoAbv, Buzz>>

\* C20: sorted by ABV, every item without ABV comes after every item with
\* an ABV, ascending and descending.
C20_NullsLast ==
    sortConfig.by = "abv"
        => \A i, j \in DOMAIN displayedBeers :
              (displayedBeers[i].abv = None /\ displayedBeers[j].abv # None)
                  => j < i

\* descending by ABV: 5.6, 4.5, then the item without ABV that led the source
C20_Witness ==
    /\ sortConfig = [by |-> "abv", direction |-> "desc"]
    /\ sourceBeers = <<NoAbv, Buzz, PunkIPA>>
    /\ displayedBeers = <<PunkIPA, Buzz, NoAbv>>

\* the key the sort compares, names in lower case; None when it is null
KeyOf(beer) ==
    IF sortConfig.by = "abv"
    THEN beer.abv
    ELSE Some([i \in 1 .. Len(beer.name) |-> Lower(beer.name[i])])

\* key x is not greater than key y
KeyLeq(x, y) ==
    IF sortConfig.by = "abv" THEN x <= y ELSE x = y \/ StringLess(x, y)

\* the position of an item in the displayed list
PositionOf(beer) == CHOOSE j \in DOMAIN displayedBeers : displayedBeers[j] = beer

\* C21: for the sort keys name and abv the displayed list is a permutation
\* of the filtered list, and its items with a non-null key are in
\* non-decreasing key order for asc and in non-increasing key order for
\* desc, names compared without regard to case.
C21_SortedPermutation ==
    sortConfig.by \in {"name", "abv"}
        => /\ Len(displayedBeers) = Len(filteredBeers)
           /\ \A i \in DOMAIN filteredBeers : Displayed(filteredBeers[i])
           /\ \A i, j \in DOMAIN displayedBeers :
                LET x == KeyOf(displayedBeers[i])
                    y == KeyOf(displayedBeers[j])
                IN  (i < j /\ x # None /\ y # None)
                        => IF sortConfig.direction = "asc"
                           THEN KeyLeq(x[1], y[1])
                           ELSE KeyLeq(y[1], x[1])

\* by name, descending: Trashy, pils, Buzz although "T" < "p" as characters
C21_Witness ==
    /\ sortConfig = [by |-> "name", direction |-> "desc"]
    /\ filteredBeers = <<NoAbv, Buzz, TrashyBlonde>>
    /\ displayedBeers = <<TrashyBlonde, NoAbv, Buzz>>

\* C22: the sort is stable: two items with equal keys (equal lower-cased
\* names, equal ABV, both without ABV) are displayed in the order they have
\* in the filtered list, ascending and descending.
C22_StableSort ==
    sortConfig.by \in {"name", "abv"}
        => \A i, j \in DOMAIN filteredBeers :
              (i < j /\ KeyOf(filteredBeers[i]) = KeyOf(filteredBeers[j]))
                  => PositionOf(filteredBeers[i]) < PositionOf(filteredBeers[j])

\* descending by ABV: PunkAle and Buzz (both 4.5) keep their input order,
\* behind them the item without ABV
C22_Witness ==
    /\ sortConfig = [by |-> "abv", direction |-> "desc"]
    /\ filteredBeers = <<NoAbv, PunkAle, Buzz>>
    /\ displayedBeers = <<PunkAle, Buzz, NoAbv>>

\* ------------------------------------------------------------------------
\* Properties of the favorites service
\* ------------------------------------------------------------------------

\* the ids of the items of a list, and membership of an id in favorites
IdsOf(list) == {list[i].id : i \in DOMAIN list}
Member(beerId) == beerId \in IdsOf(favorites)

\* the text decodes to the list: a JSON array of as many elements, each
\* with the id, the name and the abv of the item at its place
DecodesTo(stored, list) ==
    /\ stored # None
    /\ stored[1].text = "json"
    /\ stored[1].type = "array"
    /\ Len(stored[1].items) = Len(list)
    /\ \A i \in DOMAIN list :
          /\ stored[1].items[i].idType = "number"
          /\ stored[1].items[i].nameType = "string"
          /\ stored[1].items[i].id = list[i].id
          /\ stored[1].items[i].name = list[i].name
          /\ stored[1].items[i].abv = list[i].abv

\* a step of one of the mutators that changes the collection or rewrites
\* the storage: add of a new item, remove, toggle, clear
Mutation(outcome) ==
    \/ \E beer \in FavoriteInputs :
          ~Member(beer.id) /\ FavoritesAdd(beer, outcome)
    \/ \E beerId \in FavoriteIds : FavoritesRemove(beerId, outcome)
    \/ \E beer \in FavoriteInputs : FavoritesToggle(beer, outcome)
    \/ \E beer \in FavoriteInputs : StoreToggleFavorite(beer, outcome)
    \/ FavoritesClear(outcome)

\* what a toggle makes of a list
AfterToggle(list, beer) ==
    IF beer.id \in IdsOf(list)
    THEN SelectSeq(list, LAMBDA other : other.id # beer.id)
    ELSE Append(list, beer)

\* C25: adding an item whose id is already in the favorites changes
\* nothing: the collection and the stored text stay as they are.
C25_AddIsIdempotent ==
    [][\A beer \in FavoriteInputs, outcome \in SaveOutcomes :
          (Member(beer.id) /\ FavoritesAdd(beer, outcome))
              => UNCHANGED <<favorites, storage>>]_vars

\* Buzz is a favorite and an item with its id can be added
C25_Witness ==
    /\ constructed
    /\ favorites = <<TrashyBlonde, Buzz>>
    /\ storage = Some(Stringify(<<TrashyBlonde, Buzz>>))
    /\ ENABLED FavoritesAdd(BuzzLight, "stored")

\* C26: the favorites never hold two items with the same id.
C26_NoDuplicateIds ==
    \A i, j \in DOMAIN favorites :
        favorites[i].id = favorites[j].id => i = j

\* C27 as stated: after every mutation the stored text decodes to the
\* favorites, in their order.
C27_StorageFollows ==
    [][\A outcome \in SaveOutcomes :
          Mutation(outcome) => DecodesTo(storage', favorites')]_vars

\* C27: after every mutation whose write to the storage succeeds the stored
\* text decodes to the favorites, in their order; when the write fails
\* (quota exceeded) the storage keeps the text it had.
C27_StorageFollowsUnlessFull ==
    [][\A outcome \in SaveOutcomes :
          Mutation(outcome)
              => IF outcome = "stored"
                 THEN DecodesTo(storage', favorites')
                 ELSE storage' = storage]_vars

\* three favorites, in the order they were added, and their text
C27_Witness ==
    /\ constructed
    /\ favorites = <<NoAbv, Buzz, TrashyBlonde>>
    /\ DecodesTo(storage, favorites)

\* the stored text is no JSON, no array, or has an element that is no Beer
Unparsable(stored) == stored # None /\ stored[1].text # "json"
NotAnArray(stored) ==
    stored # None /\ stored[1].text = "json" /\ stored[1].type # "array"
BadElement(stored) ==
    /\ stored # None
    /\ stored[1].text = "json"
    /\ stored[1].type = "array"
    /\ \E i \in DOMAIN stored[1].items :
          stored[1].items[i].idType # "number"
              \/ stored[1].items[i].nameType # "string"

\* C28 as stated: constructed on a text that is unparsable, no array or has
\* a bad element, the service starts with no favorites, the text is removed
\* and no exception leaves the constructor.
C28_CorruptedIsDiscarded ==
    [][(Construct
          /\ (Unparsable(storage) \/ NotAnArray(storage) \/ BadElement(storage)))
          => /\ favorites' = <<>>
             /\ storage' = None
             /\ ~loadFavorites(storage).thrown]_vars

\* C28: as above for every text but the empty string; on the empty string
\* the service starts with no favorites too and no exception leaves the
\* constructor, but the empty string stays in the storage.
C28_CorruptedIsDiscardedUnlessEmpty ==
    [][(Construct
          /\ (Unparsable(storage) \/ NotAnArray(storage) \/ BadElement(storage)))
          => /\ favorites' = <<>>
             /\ ~loadFavorites(storage).thrown
             /\ storage' = IF storage[1].text = "empty" THEN storage ELSE None]_vars

\* before construction the storage holds an array whose second element has
\* no name
C28_Witness ==
    /\ ~constructed
    /\ BadElement(storage)
    /\ storage[1].items[1] = JsonItem(Buzz)
    /\ ENABLED Construct

\* C29: a toggle flips the membership of the id of its item and of no other
\* id; a second toggle of the same item restores the set of member ids; the
\* store's toggleFavorite and isFavorite are those of the service.
C29_ToggleFlips ==
    [][/\ \A beer \in FavoriteInputs, outcome \in SaveOutcomes :
            FavoritesToggle(beer, outcome)
                => /\ (beer.id \in IdsOf(favorites')) = ~Member(beer.id)
                   /\ \A other \in (IdsOf(favorites) \cup IdsOf(favorites'))
                                      \ {beer.id} :
                         (other \in IdsOf(favorites')) = Member(other)
                   /\ favorites' = AfterToggle(favorites, beer)
                   /\ IdsOf(AfterToggle(favorites', beer)) = IdsOf(favorites)
       /\ \A beer \in FavoriteInputs, outcome \in SaveOutcomes :
            StoreToggleFavorite(beer, outcome) => FavoritesToggle(beer, outcome)
       /\ \A beerId \in FavoriteIds : StoreIsFavorite(beerId) = Member(beerId)]_vars

\* Buzz was toggled out of three favorites while the storage was full: the
\* text still holds all three
C29_Witness ==
    /\ constructed
    /\ favorites = <<NoAbv, TrashyBlonde>>
    /\ storage = Some(Stringify(<<NoAbv, Buzz, TrashyBlonde>>))

\* ------------------------------------------------------------------------
\* Properties of the empty-state message
\* ------------------------------------------------------------------------

\* C23: in favorites mode the message is the 'no favorites yet' one
\* whenever the favorites are empty, whatever the filters and the error,
\* and the 'no favorites match' one whenever the favorites are not empty
\* and the filtered list is.
C23_FavoritesMessages ==
    filterMode = "favorites"
        => /\ favorites = <<>>
                => emptyMessage
                     = "No favorites yet. Start adding beers to your favorites!"
           /\ (favorites # <<>> /\ filteredBeers = <<>>)
                => emptyMessage
                     = "No favorites match your filters. Try adjusting your search or ABV range."

\* favorites mode after a failed load: the one favorite does not match the
\* search text
C23_Witness ==
    /\ filterMode = "favorites"
    /\ error # None
    /\ favorites = <<NoAbv>>
    /\ searchTerm = <<"u">>
    /\ isEmpty
    /\ emptyMessage
         = "No favorites match your filters. Try adjusting your search or ABV range."

\* C24: in 'all' mode the message is the 'failed to load' one whenever an
\* error is set, filters or not; without error it is the 'no beers match'
\* one when a search text (blanks apart) or an ABV bound is set and the
\* filtered list is empty, and the 'no beers available' one when no filter
\* is set and the list is empty; isEmpty is true exactly when the displayed
\* list has no element.
C24_RemoteMessages ==
    /\ isEmpty <=> Len(displayedBeers) = 0
    /\ filterMode = "all"
        => /\ error # None
                => emptyMessage = "Failed to load beers. Please try again."
           /\ (/\ error = None
               /\ Trimmed(searchTerm) # <<>> \/ abvRange.min # None
                                             \/ abvRange.max # None
               /\ filteredBeers = <<>>)
                => emptyMessage
                     = "No beers match your filters. Try adjusting your search or ABV range."
           /\ (/\ error = None
               /\ Trimmed(searchTerm) = <<>>
               /\ abvRange.min = None
               /\ abvRange.max = None
               /\ displayedBeers = <<>>)
                => emptyMessage = "No beers available."

\* 'all' mode, a search text is set, the request for it failed and nothing
\* is displayed
C24_Witness ==
    /\ filterMode = "all"
    /\ searchTerm = <<"u">>
    /\ error # None
    /\ requests[Latest].phase = "failed"
    /\ isEmpty
    /\ emptyMessage = "Failed to load beers. Please try again."

\* ------------------------------------------------------------------------
\* Properties of the retry policy
\* ------------------------------------------------------------------------

\* C30: when an attempt of a call fails with a 4xx status, 429 included,
\* the failure is surfaced in that step: the call has failed with the
\* message of that failure, it does not wait for a backoff timer, no
\* further attempt is made (a first attempt stays the only one), and a
\* failed call makes no attempt any more.
C30_ClientErrorsAreNotRetried ==
    [][/\ \A r \in 1 .. Len(requests) : \A f \in Failures :
            (/\ requests[r].subscribed
             /\ requests[r].phase = "inflight"
             /\ requests'[r].phase # "inflight"
             /\ f.status >= 400
             /\ f.status < 500
             /\ HttpFailure(r, f))
                => /\ requests'[r].phase = "failed"
                   /\ requests'[r].attempt = requests[r].attempt
                   /\ requests'[r].phase # "backoff"
                   /\ error' = Some(HandleError(f).message)
       /\ \A r \in 1 .. Len(requests) :
            requests[r].phase = "failed"
                => /\ requests'[r].phase = "failed"
                   /\ requests'[r].attempt <= requests[r].attempt]_vars

\* the only attempt of a call was answered with 429 and the call has
\* failed with the rate limit message
C30_Witness ==
    \E r \in 1 .. Len(requests) :
        /\ requests[r].phase = "failed"
        /\ requests[r].attempt = 1
        /\ requests[r].subscribed
        /\ error = Some("Too many requests. Please wait a moment and try again.")

\* C31: a call whose attempts keep failing with status 0 or 5xx is
\* retried three times: the first, second and third failure arm a timer of
\* 1000, 2000 and 4000 ms and surface nothing, the next attempt starts when
\* that timer fires, and the fourth failure is surfaced; there is never a
\* fifth attempt.
C31_RetryWithBackoff ==
    [][/\ \A r \in 1 .. Len(requests) : \A f \in Failures :
            (/\ requests[r].subscribed
             /\ requests[r].phase = "inflight"
             /\ requests'[r].phase # "inflight"
             /\ f.status = 0 \/ f.status >= 500
             /\ HttpFailure(r, f))
                => IF requests[r].attempt <= 3
                   THEN /\ requests'[r].phase = "backoff"
                        /\ requests'[r].attempt = requests[r].attempt
                        /\ requests'[r].delay
                             = Some(CASE requests[r].attempt = 1 -> 1000
                                      [] requests[r].attempt = 2 -> 2000
                                      [] requests[r].attempt = 3 -> 4000)
                        /\ UNCHANGED <<beers, loading, error>>
                   ELSE /\ requests[r].attempt = 4
                        /\ requests'[r].phase = "failed"
                        /\ error' = Some(HandleError(f).message)
       /\ \A r \in 1 .. Len(requests) :
            /\ requests[r].attempt <= 4
            /\ (requests'[r].subscribed
                    /\ requests'[r].attempt # requests[r].attempt)
                => /\ requests[r].phase = "backoff"
                   /\ requests'[r].phase = "inflight"
                   /\ requests'[r].attempt = requests[r].attempt + 1]_vars

\* the call waits for its third retry, the 4000 ms timer is armed and
\* nothing has been surfaced
C31_Witness ==
    \E r \in 1 .. Len(requests) :
        /\ requests[r].phase = "backoff"
        /\ requests[r].attempt = 3
        /\ requests[r].delay = Some(4000)
        /\ error = None
        /\ loading

\* C36: when an attempt succeeds after one or more failed attempts of the
\* same call, the items of that answer are what the caller gets, no
\* failure has been or is surfaced, the call is complete and makes no
\* attempt any more.
C36_RecoversAfterRetry ==
    [][/\ \A r \in 1 .. Len(requests) : \A body \in Responses :
            (/\ requests[r].subscribed
             /\ requests[r].phase = "inflight"
             /\ requests[r].attempt > 1
             /\ requests'[r].phase # "inflight"
             /\ HttpSuccess(r, body))
                => /\ beers' = body
                   /\ requests'[r].result = Some(body)
                   /\ error = None
                   /\ error' = None
                   /\ requests'[r].phase = "done"
                   /\ requests'[r].attempt = requests[r].attempt
       /\ \A r \in 1 .. Len(requests) :
            requests[r].phase = "done"
                => /\ requests'[r].phase = "done"
                   /\ requests'[r].attempt <= requests[r].attempt]_vars

\* the last retry of a call was answered with items
C36_Witness ==
    \E r \in 1 .. Len(requests) :
        /\ requests[r].phase = "done"
        /\ requests[r].attempt = maxRetries + 1
        /\ requests[r].result # None
        /\ beers # <<>>
        /\ beers = requests[r].result[1]
        /\ error = None

\* ------------------------------------------------------------------------
\* Properties of superseded calls
\* ------------------------------------------------------------------------

\* C34 (as stated): a call that is superseded while it waits in retry
\* backoff keeps its timer and goes on with its remaining retries, and a
\* superseded call whose attempt fails with a retryable failure is retried.
C34_SupersededKeepsRunning ==
    [][/\ Issues
            => \A r \in 1 .. Len(requests) :
                   requests[r].phase = "backoff"
                       => requests'[r].phase = "backoff"
       /\ \A r \in 1 .. Len(requests) : \A f \in Failures :
            (/\ ~requests[r].subscribed
             /\ requests[r].phase = "inflight"
             /\ ~IsClientError(f)
             /\ HttpFailure(r, f))
                => requests'[r].phase = "backoff"]_vars

\* C34 (amended): when a new call is issued every earlier call is
\* unsubscribed from; one that waited in retry backoff loses its timer and
\* is cancelled for good, one whose attempt was running keeps nothing but
\* that attempt. A call that was unsubscribed from never waits in backoff
\* and never starts an attempt: all that can still happen to it is that
\* its aborted attempt settles, which writes nothing.
C34_SupersededIsCancelled ==
    [][/\ Issues
            => \A r \in 1 .. Len(requests) :
                   /\ ~requests'[r].subscribed
                   /\ requests'[r].delay = None
                   /\ requests[r].phase = "backoff"
                        => requests'[r].phase = "cancelled"
                   /\ requests[r].phase # "backoff"
                        => requests'[r].phase = requests[r].phase
       /\ \A r \in 1 .. Len(requests) :
            ~requests[r].subscribed
                => /\ ~requests'[r].subscribed
                   /\ requests'[r].phase # "backoff"
                   /\ requests'[r].attempt = requests[r].attempt
                   /\ requests'[r].phase # requests[r].phase
                        => /\ requests[r].phase = "inflight"
                           /\ requests'[r].phase = "dropped"
                           /\ UNCHANGED <<beers, loading, error>>]_vars

\* a call was superseded while it waited for its second retry: its timer
\* is gone and the newer call is running
C34_Witness ==
    /\ Len(requests) = 2
    /\ requests[1].phase = "cancelled"
    /\ requests[1].delay = None
    /\ ~requests[1].subscribed
    /\ requests[2].phase = "inflight"
    /\ requests[2].subscribed

\* ------------------------------------------------------------------------
\* Properties of the ownership of beers, loading and error
\* ------------------------------------------------------------------------

\* in this step an event of a call (answer, failure, retry timer) happens
PipelineEvent ==
    /\ Len(requests') = Len(requests)
    /\ \E r \in 1 .. Len(requests) : requests'[r].phase # requests[r].phase

\* what the start of a request writes, and nothing else
OnlyRequestStart ==
    /\ Issues
    /\ beers' = beers
    /\ loading' = TRUE
    /\ error' = None

\* C33: beers, loading and error are written by the request pipeline only.
\* setSortConfig, setFilterMode('favorites') and toggleFavorite leave the
\* three as they are, and so do setSearchTerm and setAbvRange in favorites
\* mode; in 'all' mode setSearchTerm, setAbvRange and setFilterMode('all')
\* change them only by the start of the request they issue; any other
\* change of the three comes with an event of a call.
C33_PipelineOwnsTriple ==
    [][/\ (\E config \in SortConfigs : SetSortConfig(config))
            => UNCHANGED <<beers, loading, error>>
       /\ SetFilterMode("favorites")
            => UNCHANGED <<beers, loading, error>>
       /\ (\E beer \in FrameFavorites : StoreToggleFavorite(beer, "stored"))
            => UNCHANGED <<beers, loading, error>>
       /\ (/\ filterMode = "favorites"
           /\ \/ \E term \in SearchTerms : SetSearchTerm(term)
              \/ \E range \in AbvRanges : SetAbvRange(range))
            => UNCHANGED <<beers, loading, error, requests>>
       /\ (/\ filterMode = "all"
           /\ \/ \E term \in SearchTerms : SetSearchTerm(term)
              \/ \E range \in AbvRanges : SetAbvRange(range)
              \/ SetFilterMode("all"))
            => OnlyRequestStart
       /\ <<beers, loading, error>>' # <<beers, loading, error>>
            => OnlyRequestStart \/ PipelineEvent]_vars

\* the message of a failed request is still there after the switch to
\* favorites mode, a favorite was added and a search text was typed there
C33_Witness ==
    /\ filterMode = "favorites"
    /\ error # None
    /\ favorites # <<>>
    /\ searchTerm # <<>>
    /\ sortConfig.by = "abv"
    /\ \E r \in 1 .. Len(requests) : requests[r].phase = "failed"

\* C40: the switch to favorites mode leaves the running request as it
\* is; when that request settles in favorites mode, its items are written
\* to beers or its message to error, and loading becomes false; and as
\* long as the mode is 'favorites' the displayed list is made of the
\* favorites.
C40_FavoritesSwitchKeepsRequest ==
    [][/\ SetFilterMode("favorites") => requests' = requests
       /\ \A r \in 1 .. Len(requests) :
            (/\ filterMode = "favorites"
             /\ requests[r].subscribed
             /\ Becomes(r, "done"))
                => /\ beers' = requests'[r].result[1]
                   /\ loading' = FALSE
       /\ \A r \in 1 .. Len(requests) :
            (/\ filterMode = "favorites"
             /\ requests[r].subscribed
             /\ Becomes(r, "failed"))
                => /\ error' # None
                   /\ loading' = FALSE
       /\ filterMode' = "favorites"
            => /\ sourceBeers' = favorites'
               /\ \A i \in 1 .. Len(displayedBeers') :
                    \E j \in 1 .. Len(favorites') :
                        displayedBeers'[i] = favorites'[j]]_vars

\* ------------------------------------------------------------------------
\* Properties of LoadingService and ErrorMessageService
\* ------------------------------------------------------------------------

\* C37: after any sequence of show(), hide() and reset() the counter of
\* active requests is not negative and loading is true exactly when the
\* counter is greater than zero; hide() at counter 0 leaves it at 0.
C37_CounterAndLoading ==
    /\ [](/\ activeRequests >= 0
          /\ globalLoading <=> activeRequests > 0)
    /\ [][(LoadingHide /\ activeRequests = 0)
            => /\ activeRequests' = 0
               /\ globalLoading' = FALSE]_vars

\* two requests are active and a message is shown
C37_Witness ==
    /\ activeRequests = 2
    /\ globalLoading
    /\ currentError # None

\* C39: a message shown with a timeout t > 0 has one timer, due t ms after
\* the call, and a message shown with timeout 0 has none; a timer that is
\* pending is the one of the current message, so the timer of a message
\* that was replaced or cleared never fires; the message goes away only by
\* clearError or when its timer fires, which is at the moment it is due,
\* and a timer stays pending until showError, clearError or its firing.
C39_AutoDismiss ==
    /\ [](/\ \A t \in timers : timeoutId = Some(t.id) /\ now <= t.due
          /\ timeoutId # None
                => /\ currentError # None
                   /\ \E t \in timers : t.id = timeoutId[1])
    /\ [][/\ \A message \in ErrorMessages, timeout \in Timeouts :
                ShowError(message, timeout)
                    => /\ currentError' = Some(message)
                       /\ timeout > 0
                            => /\ timeoutId' # None
                               /\ timers' = { [id |-> timeoutId'[1],
                                               due |-> now + timeout] }
                       /\ timeout = 0
                            => /\ timeoutId' = None
                               /\ timers' = {}
          /\ (currentError # None /\ currentError' = None)
                => ClearError \/ \E t \in timers : TimerFires(t)
          /\ \A t \in timers :
                TimerFires(t)
                    => /\ now = t.due
                       /\ currentError' = None
                       /\ timers' = {}
          /\ timers' # timers
                => \/ \E message \in ErrorMessages, timeout \in Timeouts :
                        ShowError(message, timeout)
                   \/ ClearError
                   \/ \E t \in timers : TimerFires(t)]_vars

\* a second message was shown one second after the first, with a timeout
\* of one second: its timer is the only one
C39_Witness ==
    /\ Len(errorHistory) = 2
    /\ currentError = Some(errorHistory[2])
    /\ now = 1000
    /\ timeoutId # None
    /\ timers = { [id |-> timeoutId[1], due |-> 2000] }

\* ------------------------------------------------------------------------
\* Properties of the HTTP client and its interceptors
\* ------------------------------------------------------------------------

\* the calls with an attempt that is running
Outstanding ==
    { r \in 1 .. Len(requests) :
        requests[r].phase = "inflight" /\ requests[r].subscribed }

\* C32: before any call getRateLimitInfo() is null, and after a response
\* that has a rate-limit-remaining header, be it an answer with a body or
\* a failure, getRateLimitInfo() gives the count of that header.
C32_MostRecentRemaining ==
    /\ [](requests = <<>> => getRateLimitInfo = None)
    /\ [][\A r \in 1 .. Len(requests) : \A headers \in HeaderSets :
            (/\ \/ \E body \in HttpBodies : AttemptSucceeds(r, body, headers)
                \/ \E f \in HttpFailures : AttemptFails(r, f, headers)
             /\ headers.remaining # None)
                => /\ getRateLimitInfo' # None
                   /\ getRateLimitInfo'[1].remaining
                        = ParseInt(headers.remaining[1])]_vars

\* C35: of a call that fails with failures that are retried, the error
\* interceptor shows nothing while a retry is still to come, and shows the
\* message once, when the last retry has failed.
C35_ReportedOnceAfterRetries ==
    [][\A r \in 1 .. Len(requests) : \A f \in HttpFailures :
          \A headers \in HeaderSets :
            (AttemptFails(r, f, headers) /\ ~IsClientError(f))
                => /\ requests'[r].phase = "backoff"
                        => UNCHANGED <<currentError, errorHistory, timeoutId>>
                   /\ requests'[r].phase = "failed"
                        => /\ currentError' = Some(UserMessage(f))
                           /\ errorHistory'
                                = LastTen(Append(errorHistory,
                                                 UserMessage(f)))]_vars

\* C38: show() is called once when an attempt starts, by a new call or by
\* a retry, and hide() once when the attempt is answered, fails or is left
\* by its subscriber; so the counter is the number of running attempts and
\* loading is true exactly while there is one, whatever the order of the
\* events of the calls.
C38_LoadingFollowsAttempts ==
    /\ [](/\ activeRequests = Cardinality(Outstanding)
          /\ globalLoading <=> Outstanding # {})
    /\ [][/\ (GatewayCall \/ \E r \in 1 .. Len(requests) : BackoffElapses(r))
                => activeRequests' = activeRequests + 1
          /\ \A r \in Outstanding :
                (/\ requests'[r].phase # "inflight"
                 /\ \/ \E body \in HttpBodies, headers \in HeaderSets :
                         AttemptSucceeds(r, body, headers)
                    \/ \E f \in HttpFailures, headers \in HeaderSets :
                         AttemptFails(r, f, headers)
                    \/ Unsubscribe(r))
                    => activeRequests' = activeRequests - 1
          /\ activeRequests' # activeRequests
                => Outstanding' # Outstanding]_vars

\* of two calls the first was left by its subscriber and the second runs
\* its second attempt
C38_Witness ==
    /\ Len(requests) = 2
    /\ requests[1].phase = "cancelled"
    /\ requests[2].phase = "inflight"
    /\ requests[2].attempt = 2
    /\ activeRequests = 1
    /\ globalLoading

====
